---- MODULE Spec2Model ----
(***************************************************************************)
(* Model of the CIAN XML feed builder, src/app/feed_builder.py.            *)
(*                                                                         *)
(* build_feed turns a batch of loosely typed listing records into an       *)
(* ordered tree Feed{Feed_Version, Object*}.  The model keeps the Python   *)
(* value types of the record fields (None, str, int, bool, list, dict),    *)
(* because the code's behaviour (truthiness, str, int, get, re.search)     *)
(* depends on them, and it keeps strings as strings of characters, because *)
(* the extractors are regular-expression scans.                            *)
(*                                                                         *)
(* The module is ASCII.  The Russian labels and keywords of the source are *)
(* written letter by letter in Latin transliteration (Площадь: is          *)
(* "Ploschadj:", Санузел: is "Sanuzel:", ...): every Cyrillic letter maps  *)
(* to Latin letters of the same case, so the character classes, lower()    *)
(* and the substring relations between the keywords are those of the       *)
(* source.  The no-break space U+00A0 is written as NBSP.                  *)
(***************************************************************************)
EXTENDS Integers, Sequences, FiniteSets, TLC

VARIABLES apartments, idx, feed, pc, arg, ret

vars == <<apartments, idx, feed, pc, arg, ret>>

---------------------------------------------------------------------------
(* Python values.  A value carries its type; the payload field is named    *)
(* after the type so that values of different types are simply unequal.    *)

NoneV == [t |-> "none"]

StrV(s) == [t |-> "str", s |-> s]

IntV(n) == [t |-> "int", n |-> n]

BoolV(b) == [t |-> "bool", b |-> b]

\* a list: its items in order
ListV(items) == [t |-> "list", items |-> items]

\* a dict: its keys in insertion order and the value of each key
DictV(keys, vals) == [t |-> "dict", keys |-> keys, vals |-> vals]

EmptyDict == DictV(<<>>, <<>>)

IsStr(v) == v.t = "str"

\* bool(v)
Truthy(v) ==
  CASE v.t = "none" -> FALSE
    [] v.t = "str"  -> v.s # ""
    [] v.t = "int"  -> v.n # 0
    [] v.t = "bool" -> v.b
    [] v.t = "list" -> v.items # <<>>
    [] v.t = "dict" -> v.keys # <<>>

\* a or b
Or(a, b) == IF Truthy(a) THEN a ELSE b

\* mapping.get(key): the value of the key, None when the key is absent
Get(apt, key) == IF key \in DOMAIN apt THEN apt[key] ELSE NoneV

\* dict.get(key) on a modelled dict value
DictGet(d, key) ==
  LET I == {i \in 1..Len(d.keys) : d.keys[i] = key}
  IN  IF I = {} THEN NoneV ELSE d.vals[CHOOSE i \in I : TRUE]

---------------------------------------------------------------------------
(* Characters and strings.  Ch(s, i) is the i-th character of s.           *)

Ch(s, i) == SubSeq(s, i, i)

Chars(s) == {Ch(s, i) : i \in 1..Len(s)}

DigitChars == "0123456789"

LowerAlpha == "abcdefghijklmnopqrstuvwxyz"

UpperAlpha == "ABCDEFGHIJKLMNOPQRSTUVWXYZ"

\* stand-in for U+00A0, which Python's \s and str.strip treat as whitespace
NBSP == "\t"

\* \d
Digit == Chars(DigitChars)

\* \s
Space == {" ", "\n", NBSP}

\* \w
Word == Chars(LowerAlpha) \cup Chars(UpperAlpha) \cup Digit \cup {"_"}

LowerCh(c) ==
  LET I == {i \in 1..Len(UpperAlpha) : Ch(UpperAlpha, i) = c}
  IN  IF I = {} THEN c ELSE Ch(LowerAlpha, CHOOSE i \in I : TRUE)

\* str.lower()
RECURSIVE Lower(_)
Lower(s) ==
  IF Len(s) = 0 THEN ""
  ELSE IF Len(s) = 1 THEN LowerCh(s)
  ELSE Lower(SubSeq(s, 1, Len(s) \div 2)) \o Lower(SubSeq(s, Len(s) \div 2 + 1, Len(s)))

\* the suffix of s from position i on
From(s, i) == SubSeq(s, i, Len(s))

\* first position >= i of s whose character is not in class (Len(s)+1 if none)
SpanEnd(s, i, class) ==
  LET K == {k \in i..Len(s) : Ch(s, k) \notin class}
  IN  IF i > Len(s) THEN i
      ELSE IF K = {} THEN Len(s) + 1
      ELSE CHOOSE k \in K : \A j \in i..(k - 1) : j \notin K

\* first position >= i of s whose character is in class (Len(s)+1 if none)
SkipTo(s, i, class) ==
  LET K == {k \in i..Len(s) : Ch(s, k) \in class}
  IN  IF i > Len(s) THEN i
      ELSE IF K = {} THEN Len(s) + 1
      ELSE CHOOSE k \in K : \A j \in i..(k - 1) : j \notin K

\* last position <= i of s whose character is not in class (0 if none)
SpanStart(s, i, class) ==
  LET K == {k \in 1..i : Ch(s, k) \notin class}
  IN  IF i < 1 THEN i
      ELSE IF K = {} THEN 0
      ELSE CHOOSE k \in K : \A j \in (k + 1)..i : j \notin K

\* str.strip()
Strip(s) ==
  LET a == SpanEnd(s, 1, Space)
      b == SpanStart(s, Len(s), Space)
  IN  IF a > b THEN "" ELSE SubSeq(s, a, b)

\* needle in hay
IsSub(needle, hay) ==
  \E i \in 1..(Len(hay) - Len(needle) + 1) :
     SubSeq(hay, i, i + Len(needle) - 1) = needle

\* the characters of s that are in class, in order: re.sub(r"\D", "", s)
\* is Keep(s, Digit)
RECURSIVE Keep(_, _)
Keep(s, class) ==
  IF Len(s) = 0 THEN ""
  ELSE IF Len(s) = 1 THEN (IF s \in class THEN s ELSE "")
  ELSE Keep(SubSeq(s, 1, Len(s) \div 2), class)
       \o Keep(SubSeq(s, Len(s) \div 2 + 1, Len(s)), class)

\* re.split(r"[<delims>]+", s): the pieces between the runs of delimiters,
\* an empty piece where s starts or ends with a delimiter
RECURSIVE SplitRe(_, _)
SplitRe(s, delims) ==
  LET i == SkipTo(s, 1, delims)
  IN  IF i > Len(s) THEN <<s>>
      ELSE <<SubSeq(s, 1, i - 1)>> \o SplitRe(From(s, SpanEnd(s, i, delims)), delims)

RECURSIVE NatToStr(_)
NatToStr(n) ==
  IF n < 10 THEN Ch(DigitChars, n + 1)
  ELSE NatToStr(n \div 10) \o Ch(DigitChars, (n % 10) + 1)

\* str(n) of an int
IntToStr(n) == IF n < 0 THEN "-" \o NatToStr(-n) ELSE NatToStr(n)

\* str(v) of a scalar
PyStr(v) ==
  CASE v.t = "str"  -> v.s
    [] v.t = "int"  -> IntToStr(v.n)
    [] v.t = "bool" -> (IF v.b THEN "True" ELSE "False")
    [] v.t = "none" -> "None"

---------------------------------------------------------------------------
(* Regular-expression scans used by the extractors.                        *)

\* every character that occurs in a modelled text
AnyChar == Word \cup Space \cup Chars(":,.;/-+()&<>\"'%!*=?#")

\* [^.]
NotDot == AnyChar \ {"."}

\* re.search(r"(\d+)", s): the first run of digits of s, "" when s has none
FirstDigitRun(s) ==
  LET i == SkipTo(s, 1, Digit)
  IN  IF i > Len(s) THEN "" ELSE SubSeq(s, i, SpanEnd(s, i, Digit) - 1)

\* re.search(label \s* ([class]+), s).group(1), "" when there is no match
\* (a match's group is never empty).  The label is looked up in hay, which
\* is s itself or, under re.IGNORECASE, its lower-cased copy.  At a label
\* occurrence the greedy \s* gives whitespace back one character at a time
\* until the group can start, so the group starts at the last position k,
\* between the end of the label and the end of the whitespace run, whose
\* character is in the class; an occurrence with no such k is passed over.
LabelGroupFrom(hay, s, label, class, p) ==
  LET K(q) == {k \in (q + Len(label))..SpanEnd(s, q + Len(label), Space) :
                 k <= Len(s) /\ Ch(s, k) \in class}
      P == {q \in p..(Len(s) - Len(label) + 1) :
              SubSeq(hay, q, q + Len(label) - 1) = label /\ K(q) # {}}
  IN  IF P = {} THEN ""
      ELSE LET q == CHOOSE m \in P : \A n \in P : m <= n
               k == CHOOSE m \in K(q) : \A n \in K(q) : n <= m
           IN  SubSeq(s, k, SpanEnd(s, k, class) - 1)

LabelGroup(s, label, class) == LabelGroupFrom(s, s, label, class, 1)

LabelGroupIgnoreCase(s, label, class) ==
  LabelGroupFrom(Lower(s), s, Lower(label), class, 1)

\* re.search(label \s* (\d{n}), s).group(1), "" when there is no match
LabelDigitsFrom(s, label, n, p) ==
  LET B(q) == SpanEnd(s, q + Len(label), Space)
      P == {q \in p..(Len(s) - Len(label) + 1) :
              /\ SubSeq(s, q, q + Len(label) - 1) = label
              /\ SpanEnd(s, B(q), Digit) - B(q) >= n}
  IN  IF P = {} THEN ""
      ELSE LET q == CHOOSE m \in P : \A r \in P : m <= r
           IN  SubSeq(s, B(q), B(q) + n - 1)

\* re.search / re.split / str.lower applied to a value that is not a string
\* raise (TypeError, AttributeError); the extractors reach them with every
\* truthy value
NonStrText(v) == Truthy(v) /\ ~IsStr(v)

---------------------------------------------------------------------------
(* Normalizers.                                                            *)

EscapeCh(c) ==
  CASE c = "&"  -> "&amp;"
    [] c = "<"  -> "&lt;"
    [] c = ">"  -> "&gt;"
    [] c = "\"" -> "&quot;"
    [] c = "'"  -> "&apos;"
    [] OTHER    -> c

RECURSIVE EscapeStr(_)
EscapeStr(s) ==
  IF Len(s) = 0 THEN ""
  ELSE IF Len(s) = 1 THEN EscapeCh(s)
  ELSE EscapeStr(SubSeq(s, 1, Len(s) \div 2)) \o EscapeStr(SubSeq(s, Len(s) \div 2 + 1, Len(s)))

escape_xml(text) == IF ~Truthy(text) THEN "" ELSE EscapeStr(PyStr(text))

\* the price scan whose run takes plain spaces only
parse_price_plain(value) ==
  IF ~Truthy(value) THEN "0"
  ELSE LET s == value.s
           i == SkipTo(s, 1, Digit)
       IN  IF i > Len(s) THEN "0"
           ELSE LET digits == Keep(SubSeq(s, i, SpanEnd(s, i, Digit \cup {" "}) - 1), Digit)
                IN  IF digits # "" THEN digits ELSE "0"

parse_price(value) ==
  IF ~Truthy(value) THEN "0"
  ELSE LET s == value.s
           i == SkipTo(s, 1, Digit)
       IN  IF i > Len(s) THEN "0"
           ELSE LET digits == Keep(SubSeq(s, i, SpanEnd(s, i, Digit \cup Space) - 1), Digit)
                IN  IF digits # "" THEN digits ELSE "0"

RECURSIVE ReplaceCh(_, _, _)
ReplaceCh(s, old, new) ==
  IF Len(s) = 0 THEN ""
  ELSE IF Len(s) = 1 THEN (IF s = old THEN new ELSE s)
  ELSE ReplaceCh(SubSeq(s, 1, Len(s) \div 2), old, new)
       \o ReplaceCh(SubSeq(s, Len(s) \div 2 + 1, Len(s)), old, new)

\* the pattern is label \s* ([\d,\.]+)
_extract_float(label, source) ==
  IF ~Truthy(source) THEN "0"
  ELSE LET g == LabelGroup(source.s, label, Digit \cup {",", "."})
       IN  IF g # "" THEN ReplaceCh(g, ",", ".") ELSE "0"

\* the normalizer putting the trunk prefix 8 before a ten-digit mobile number
_normalize_phone_trunk(phone) ==
  IF ~Truthy(phone) THEN NoneV
  ELSE LET d0 == Keep(phone.s, Digit)
           d1 == IF Len(d0) = 11 /\ Head(d0) = "8" THEN "7" \o Tail(d0) ELSE d0
           d2 == IF Len(d1) = 10 /\ Head(d1) = "9" THEN "8" \o d1 ELSE d1
       IN  IF d0 = "" THEN NoneV
           ELSE IF Len(d2) = 11 /\ Head(d2) = "7" THEN StrV("+" \o d2)
           ELSE IF Head(d2) = "+" THEN StrV(d2)
           ELSE StrV("+" \o d2)

_normalize_phone(phone) ==
  IF ~Truthy(phone) THEN NoneV
  ELSE LET d0 == Keep(phone.s, Digit)
           d1 == IF Len(d0) = 11 /\ Head(d0) = "8" THEN "7" \o Tail(d0) ELSE d0
           d2 == IF Len(d1) = 10 /\ Head(d1) = "9" THEN "7" \o d1 ELSE d1
       IN  IF d0 = "" THEN NoneV
           ELSE IF Len(d2) = 11 /\ Head(d2) = "7" THEN StrV("+" \o d2)
           ELSE IF Head(d2) = "+" THEN StrV(d2)
           ELSE StrV("+" \o d2)

InSeq(x, seq) == \E i \in 1..Len(seq) : seq[i] = x

\* the inner loop of _collect_phones over the values of one source
RECURSIVE CollectValues(_, _)
CollectValues(phones, values) ==
  IF values = <<>> THEN phones
  ELSE LET phone == _normalize_phone(StrV(Strip(PyStr(Head(values)))))
       IN  CollectValues(IF Truthy(phone) /\ ~InSeq(phone.s, phones)
                         THEN Append(phones, phone.s) ELSE phones,
                         Tail(values))

StrSeq(pieces) == [i \in 1..Len(pieces) |-> StrV(pieces[i])]

RECURSIVE CollectSources(_, _)
CollectSources(phones, sources) ==
  IF sources = <<>> THEN phones
  ELSE LET source == Head(sources)
           values == CASE source.t = "list" -> source.items
                       [] source.t = "dict" -> source.vals
                       [] OTHER -> StrSeq(SplitRe(PyStr(source), {";", ",", "/"}))
       IN  CollectSources(IF ~Truthy(source) THEN phones
                          ELSE CollectValues(phones, values),
                          Tail(sources))

\* the collection that stops after the first source
_collect_phones_first_source(sources) ==
  CollectSources(<<>>, IF sources = <<>> THEN <<>> ELSE <<Head(sources)>>)

_collect_phones(sources) == CollectSources(<<>>, sources)

RECURSIVE ZFill(_, _)
ZFill(s, width) == IF Len(s) >= width THEN s ELSE ZFill("0" \o s, width)

\* the split that gives every number the country code +7
_split_phone_home(phone) ==
  LET digits == Keep(phone, Digit)
  IN  IF digits = "" THEN <<>>
      ELSE IF Len(digits) <= 10 THEN <<"+7", ZFill(digits, 10)>>
      ELSE <<"+7", SubSeq(digits, Len(digits) - 9, Len(digits))>>

\* <<country code, local number>>, or <<>> for None
_split_phone(phone) ==
  LET digits == Keep(phone, Digit)
  IN  IF digits = "" THEN <<>>
      ELSE IF Len(digits) <= 10 THEN <<"+7", ZFill(digits, 10)>>
      ELSE LET country_digits == SubSeq(digits, 1, Len(digits) - 10)
           IN  <<"+" \o (IF country_digits # "" THEN country_digits ELSE "7"),
                 SubSeq(digits, Len(digits) - 9, Len(digits))>>

RECURSIVE StripNonEmpty(_)
StripNonEmpty(items) ==
  IF items = <<>> THEN <<>>
  ELSE (IF Strip(Head(items)) # "" THEN <<Strip(Head(items))>> ELSE <<>>)
       \o StripNonEmpty(Tail(items))

\* the split on commas alone
_split_items_commas(text) ==
  IF ~Truthy(text) THEN <<>>
  ELSE StripNonEmpty(SplitRe(text.s, {","}))

_split_items(text) ==
  IF ~Truthy(text) THEN <<>>
  ELSE StripNonEmpty(SplitRe(text.s, {",", "\n", ";"}))

AMENITY_MAP ==
  [item \in {"Holodiljnik", "Posudomoechnaya mashina", "Stiraljnaya mashina",
             "Kondicioner", "Televizor", "Internet", "Vanna",
             "Dushevaya kabina", "Mebelj na kuhne", "Mebelj v komnatah"} |->
     CASE item = "Holodiljnik"             -> "Fridge"
       [] item = "Posudomoechnaya mashina" -> "Dishwasher"
       [] item = "Stiraljnaya mashina"     -> "Washer"
       [] item = "Kondicioner"             -> "Conditioner"
       [] item = "Televizor"               -> "TV"
       [] item = "Internet"                -> "Internet"
       [] item = "Vanna"                   -> "Bath"
       [] item = "Dushevaya kabina"        -> "Shower"
       [] item = "Mebelj na kuhne"         -> "KitchenFurniture"
       [] item = "Mebelj v komnatah"       -> "RoomFurniture"]

\* [amenities: the canonical list, original: the set of lower-cased items]
_parse_amenities(text) ==
  LET items == _split_items(text)
  IN  [amenities |-> [i \in 1..Len(items) |->
                        IF items[i] \in DOMAIN AMENITY_MAP
                        THEN AMENITY_MAP[items[i]] ELSE items[i]],
       original  |-> {Lower(items[i]) : i \in 1..Len(items)}]

\* None, True or False
_get_bool(value) ==
  CASE value.t = "none" -> NoneV
    [] value.t = "bool" -> value
    [] value.t = "int"  -> BoolV(value.n # 0)
    [] value.t = "str"  ->
         LET normalized == Lower(Strip(value.s))
         IN  IF normalized \in {"true", "1", "yes", "y", "da"} THEN BoolV(TRUE)
             ELSE IF normalized \in {"false", "0", "no", "n", "net"} THEN BoolV(FALSE)
             ELSE NoneV
    [] OTHER -> NoneV

\* _set_bool inserting the element in front of the children built so far
_set_bool_first(kids, tag, value) ==
  IF value = NoneV THEN kids
  ELSE <<[tag |-> tag, kids |-> <<>>,
          text |-> StrV(IF value.b THEN "true" ELSE "false")]>> \o kids

\* the children of parent after _set_bool(parent, tag, value)
_set_bool(kids, tag, value) ==
  IF value = NoneV THEN kids
  ELSE Append(kids, [tag |-> tag, kids |-> <<>>,
                     text |-> StrV(IF value.b THEN "true" ELSE "false")])

---------------------------------------------------------------------------
(* Field extractors.  An absent result (None) is NoneV.                    *)

\* the bathroom scan reading on through punctuation to the end of the text
_parse_bathroom_counts_on(details) ==
  IF ~Truthy(details) THEN <<NoneV, NoneV>>
  ELSE LET g == LabelGroupIgnoreCase(details.s, "Sanuzel:", AnyChar)
           info == Lower(g)
           digits == FirstDigitRun(info)
           count == IF digits # "" THEN digits ELSE "1"
       IN  IF g = "" THEN <<NoneV, NoneV>>
           ELSE <<IF IsSub("razdelj", info) THEN StrV(count) ELSE NoneV,
                  IF IsSub("sovmesch", info) \/ IsSub("sovm", info)
                  THEN StrV(count) ELSE NoneV>>

\* <<separate, combined>>
_parse_bathroom_counts(details) ==
  IF ~Truthy(details) THEN <<NoneV, NoneV>>
  ELSE LET g == LabelGroupIgnoreCase(details.s, "Sanuzel:", Word \cup Space \cup {"-"})
           info == Lower(g)
           digits == FirstDigitRun(info)
           count == IF digits # "" THEN digits ELSE "1"
       IN  IF g = "" THEN <<NoneV, NoneV>>
           ELSE <<IF IsSub("razdelj", info) THEN StrV(count) ELSE NoneV,
                  IF IsSub("sovmesch", info) \/ IsSub("sovm", info)
                  THEN StrV(count) ELSE NoneV>>

_parse_count(details, label) ==
  IF ~Truthy(details) THEN NoneV
  ELSE LET g == LabelGroup(details.s, label \o ":", Digit)
       IN  IF g # "" THEN StrV(g) ELSE NoneV

\* the windows scan answering on the first cue it finds
_parse_windows_first(details, apt) ==
  LET direct == Get(apt, "windows_view_type")
  IN  IF Truthy(direct) THEN StrV(PyStr(direct))
      ELSE IF ~Truthy(details) THEN NoneV
      ELSE LET g == LabelGroup(details.s, "Okna:", NotDot)
               text == Lower(g)
               has_street == IsSub("ulic", text) \/ IsSub("ulicu", text)
               has_yard == IsSub("dvor", text)
           IN  IF g = "" THEN NoneV
               ELSE IF has_street THEN StrV("street")
               ELSE IF has_yard THEN StrV("yard")
               ELSE IF has_street /\ has_yard THEN StrV("streetAndYard")
               ELSE NoneV

_parse_windows(details, apt) ==
  LET direct == Get(apt, "windows_view_type")
  IN  IF Truthy(direct) THEN StrV(PyStr(direct))
      ELSE IF ~Truthy(details) THEN NoneV
      ELSE LET g == LabelGroup(details.s, "Okna:", NotDot)
               text == Lower(g)
               has_street == IsSub("ulic", text) \/ IsSub("ulicu", text)
               has_yard == IsSub("dvor", text)
           IN  IF g = "" THEN NoneV
               ELSE IF has_street /\ has_yard THEN StrV("streetAndYard")
               ELSE IF has_street THEN StrV("street")
               ELSE IF has_yard THEN StrV("yard")
               ELSE NoneV

\* the layout scan testing the separated cue ahead of the others
_parse_room_type_separated(details, apt) ==
  LET value == Get(apt, "room_type")
  IN  IF Truthy(value) THEN StrV(PyStr(value))
      ELSE IF ~Truthy(details) THEN NoneV
      ELSE LET g == LabelGroup(details.s, "Planirovka:", NotDot)
               text == Lower(g)
           IN  IF g = "" THEN NoneV
               ELSE IF IsSub("izol", text) THEN StrV("separated")
               ELSE IF IsSub("sovmesch", text) /\ IsSub("izolir", text) THEN StrV("both")
               ELSE IF IsSub("svobod", text) \/ IsSub("svob", text) THEN StrV("free")
               ELSE IF IsSub("smezh", text) THEN StrV("adjacent")
               ELSE NoneV

_parse_room_type(details, apt) ==
  LET value == Get(apt, "room_type")
  IN  IF Truthy(value) THEN StrV(PyStr(value))
      ELSE IF ~Truthy(details) THEN NoneV
      ELSE LET g == LabelGroup(details.s, "Planirovka:", NotDot)
               text == Lower(g)
           IN  IF g = "" THEN NoneV
               ELSE IF IsSub("sovmesch", text) /\ IsSub("izolir", text) THEN StrV("both")
               ELSE IF IsSub("svobod", text) \/ IsSub("svob", text) THEN StrV("free")
               ELSE IF IsSub("izol", text) THEN StrV("separated")
               ELSE IF IsSub("smezh", text) THEN StrV("adjacent")
               ELSE NoneV

---------------------------------------------------------------------------
(* The element tree.  An element has a tag, a text (None for an element    *)
(* that only has children) and its children in document order.             *)

\* ET.SubElement(parent, tag).text = <a value>
Leaf(tag, text) == [tag |-> tag, text |-> text, kids |-> <<>>]

\* ET.SubElement(parent, tag).text = <a string>
Text(tag, s) == Leaf(tag, StrV(s))

\* ET.SubElement(parent, tag) with children
Node(tag, kids) == [tag |-> tag, text |-> NoneV, kids |-> kids]

\* if cond: ET.SubElement(...)
Opt(cond, el) == IF cond THEN <<el>> ELSE <<>>

\* int(s) accepts surrounding whitespace, a sign, and digits that may be
\* grouped by single underscores
IsIntLiteral(s) ==
  LET t == Strip(s)
      u == IF t # "" /\ Head(t) \in {"+", "-"} THEN Tail(t) ELSE t
  IN  /\ u # ""
      /\ Chars(u) \subseteq Digit \cup {"_"}
      /\ Head(u) # "_"
      /\ Ch(u, Len(u)) # "_"
      /\ ~IsSub("__", u)

RECURSIVE StrToNat(_)
StrToNat(d) ==
  IF d = "" THEN 0
  ELSE 10 * StrToNat(SubSeq(d, 1, Len(d) - 1))
       + (CHOOSE n \in 0..9 : Ch(DigitChars, n + 1) = Ch(d, Len(d)))

\* int(v) raises ValueError for a string that is no integer literal and
\* TypeError for a list or a dict
IntRaises(v) ==
  CASE v.t = "str"  -> ~IsIntLiteral(v.s)
    [] v.t = "int"  -> FALSE
    [] v.t = "bool" -> FALSE
    [] OTHER        -> TRUE

\* int(v)
PyInt(v) ==
  CASE v.t = "int"  -> v.n
    [] v.t = "bool" -> (IF v.b THEN 1 ELSE 0)
    [] v.t = "str"  ->
         LET t == Strip(v.s)
             n == StrToNat(Keep(t, Digit))
         IN  IF Head(t) = "-" THEN -n ELSE n

---------------------------------------------------------------------------
(* build_feed: the body of the loop over the batch.                        *)

\* (tag, explicit field, amenity keyword); "" is the keyword None
bool_specs ==
  << <<"HasInternet", "has_internet", "internet">>,
     <<"HasFurniture", "has_furniture", "">>,
     <<"HasPhone", "has_phone", "telefon">>,
     <<"HasKitchenFurniture", "has_kitchen_furniture", "mebelj na kuhne">>,
     <<"HasTv", "has_tv", "televizor">>,
     <<"HasWasher", "has_washer", "stiraljnaya mashina">>,
     <<"HasConditioner", "has_conditioner", "kondicioner">>,
     <<"HasRamp", "has_ramp", "">>,
     <<"HasBathtub", "has_bathtub", "vanna">>,
     <<"HasShower", "has_shower", "dushevaya kabina">>,
     <<"HasDishwasher", "has_dishwasher", "posudomoechnaya mashina">>,
     <<"HasFridge", "has_fridge", "holodiljnik">> ,
     <<"PetsAllowed", "pets_allowed", "">>,
     <<"ChildrenAllowed", "children_allowed", "">> >>

\* rental = apt.get("rental_conditions") or ""
Rental(apt) == Or(Get(apt, "rental_conditions"), StrV(""))

\* amenities_lower
AmenitiesLower(apt) ==
  {Lower(item) : item \in _parse_amenities(Get(apt, "apartment_amenities")).original}

has_keyword(apt, keyword) == Lower(keyword) \in AmenitiesLower(apt)

\* the generic rule defaulting to false when the keyword is missing
GenericFlagDefault(apt, field, keyword) ==
  LET value == _get_bool(Get(apt, field))
  IN  IF value = NoneV /\ keyword # ""
      THEN BoolV(has_keyword(apt, keyword))
      ELSE value

\* the generic rule of the flag loop: the explicit field, else the keyword
GenericFlag(apt, field, keyword) ==
  LET value == _get_bool(Get(apt, field))
  IN  IF value = NoneV /\ keyword # ""
      THEN (IF has_keyword(apt, keyword) THEN BoolV(TRUE) ELSE NoneV)
      ELSE value

\* the HasFurniture branch of the flag loop
FurnitureFlag(apt, value) ==
  IF value = NoneV \/ value = BoolV(FALSE)
  THEN LET v1 == BoolV(has_keyword(apt, "mebelj v komnatah")
                       \/ has_keyword(apt, "mebelj na kuhne"))
           v2 == IF ~Truthy(v1) THEN _get_bool(Get(apt, "has_room_furniture")) ELSE v1
       IN  IF ~Truthy(v2) THEN _get_bool(Get(apt, "has_kitchen_furniture")) ELSE v2
  ELSE value

\* the cue scan taking any mention, also a forbidding one, for a permission
CueFlagAny(apt, value, yes1, yes2, no) ==
  LET rent_lower == Lower(Rental(apt).s)
  IN  IF value # NoneV THEN value
      ELSE IF IsSub(yes1, rent_lower) \/ IsSub(yes2, rent_lower) \/ IsSub(no, rent_lower)
      THEN BoolV(TRUE)
      ELSE value

\* the PetsAllowed / ChildrenAllowed branches of the flag loop
CueFlag(apt, value, yes1, yes2, no) ==
  LET rent_lower == Lower(Rental(apt).s)
  IN  IF value # NoneV THEN value
      ELSE IF IsSub(yes1, rent_lower) \/ IsSub(yes2, rent_lower) THEN BoolV(TRUE)
      ELSE IF IsSub(no, rent_lower) THEN BoolV(FALSE)
      ELSE value

\* the value handed to _set_bool for the i-th entry of bool_specs
FlagValue(apt, i) ==
  LET tag == bool_specs[i][1]
      value == GenericFlag(apt, bool_specs[i][2], bool_specs[i][3])
  IN  CASE tag = "HasFurniture" -> FurnitureFlag(apt, value)
        [] tag = "PetsAllowed" ->
             CueFlag(apt, value, "mozhno s zhivotnymi", "s zhivotnymi", "bez zhivotnyh")
        [] tag = "ChildrenAllowed" ->
             CueFlag(apt, value, "mozhno s detjmi", "s detjmi", "bez detey")
        [] OTHER -> value

\* for tag, field, keyword in bool_specs: ... _set_bool(obj, tag, value)
RECURSIVE FlagLoop(_, _, _)
FlagLoop(kids, apt, i) ==
  IF i > Len(bool_specs) THEN kids
  ELSE LET after == _set_bool(kids, bool_specs[i][1], FlagValue(apt, i))
       IN  IF after = kids THEN FlagLoop(kids, apt, i + 1)    \* nothing was added
           ELSE FlagLoop(after, apt, i + 1)

\* photo_urls
RECURSIVE AddUrls(_, _)
AddUrls(photo_urls, iterable) ==
  IF iterable = <<>> THEN photo_urls
  ELSE LET url == Head(iterable)
       IN  AddUrls(IF Truthy(url) /\ ~InSeq(PyStr(url), photo_urls)
                   THEN Append(photo_urls, PyStr(url)) ELSE photo_urls,
                   Tail(iterable))

\* the main photo put first without looking for it among the others
PhotoUrlsMainApart(apt) ==
  LET main_photo == Get(apt, "main_photo_url")
      photos_json == Get(apt, "photos_json")
      iterable == CASE photos_json.t = "dict" -> photos_json.vals
                    [] photos_json.t = "list" -> photos_json.items
                    [] OTHER -> <<>>
  IN  (IF Truthy(main_photo) THEN <<PyStr(main_photo)>> ELSE <<>>)
      \o AddUrls(<<>>, iterable)

PhotoUrls(apt) ==
  LET main_photo == Get(apt, "main_photo_url")
      photos_json == Get(apt, "photos_json")
      iterable == CASE photos_json.t = "dict" -> photos_json.vals
                    [] photos_json.t = "list" -> photos_json.items
                    [] OTHER -> <<>>
  IN  AddUrls(IF Truthy(main_photo) THEN <<PyStr(main_photo)>> ELSE <<>>, iterable)

add_photo(url, is_main) ==
  Node("Photo", <<Text("FullUrl", escape_xml(StrV(url))),
                  Text("IsDefault", IF is_main THEN "true" ELSE "false")>>)

Photos(apt) ==
  LET photo_urls == PhotoUrls(apt)
  IN  Node("Photos", [i \in 1..Len(photo_urls) |-> add_photo(photo_urls[i], i = 1)])

\* agent_info = apt.get("agent") or {}
AgentInfo(apt) == Or(Get(apt, "agent"), EmptyDict)

Phones(apt) ==
  _collect_phones(<<DictGet(AgentInfo(apt), "phones"),
                    DictGet(AgentInfo(apt), "phone"),
                    Get(apt, "agent_phone")>>)

RECURSIVE PhoneSchemas(_)
PhoneSchemas(phones) ==
  IF phones = <<>> THEN <<>>
  ELSE LET phone_parts == _split_phone(Head(phones))
       IN  (IF phone_parts = <<>> THEN <<>>
            ELSE <<Node("PhoneSchema", <<Text("CountryCode", phone_parts[1]),
                                         Text("Number", phone_parts[2])>>)>>)
           \o PhoneSchemas(Tail(phones))

\* the Contact element, given the collected phones
Contact(apt, phones) ==
  LET agent_info == AgentInfo(apt)
      contact_name == Or(DictGet(agent_info, "name"),
                         Or(Get(apt, "agent_name"), Get(apt, "agent_full_name")))
      contact_email == Or(DictGet(agent_info, "email"), Get(apt, "agent_email"))
  IN  Node("Contact",
           Opt(Truthy(contact_name), Text("Name", escape_xml(contact_name)))
           \o <<Node("Phones", PhoneSchemas(phones))>>
           \o Opt(Truthy(contact_email), Text("Email", escape_xml(contact_email))))

\* the contact block made as soon as there is a listing-level name
ContactsForName(apt) ==
  LET phones == Phones(apt)
  IN  Opt(phones # <<>> \/ Truthy(Get(apt, "agent_name")),
          Node("Contacts", <<Contact(apt, phones)>>))

\* if phones: contacts = ET.SubElement(obj, "Contacts") ...
Contacts(apt) ==
  LET phones == Phones(apt)
  IN  Opt(phones # <<>>, Node("Contacts", <<Contact(apt, phones)>>))

SubAgent(apt) ==
  LET Field(tag, key) == Opt(Truthy(Get(apt, key)), Text(tag, escape_xml(Get(apt, key))))
  IN  Opt(Truthy(Get(apt, "subagent_first_name")) \/ Truthy(Get(apt, "subagent_last_name")),
          Node("SubAgent", Field("Email", "subagent_email")
                           \o Field("Phone", "subagent_phone")
                           \o Field("FirstName", "subagent_first_name")
                           \o Field("LastName", "subagent_last_name")
                           \o Field("AvatarUrl", "subagent_avatar_url")))

Building(apt) ==
  LET total_floors == Get(apt, "total_floors")
      house_details == Get(apt, "house_details")
      year == IF Truthy(house_details)
              THEN LabelDigitsFrom(house_details.s, "God:", 4, 1) ELSE ""
  IN  Node("Building",
           Opt(Truthy(Get(apt, "complex_name")),
               Text("Name", escape_xml(Get(apt, "complex_name"))))
           \o Opt(Truthy(total_floors), Text("FloorsNumber", PyStr(total_floors)))
           \o Opt(year # "", Text("BuildYear", year)))

JKSchema(apt) ==
  LET jk_id == Or(Get(apt, "jk_id"), Get(apt, "complex_id"))
      Has(key) == Truthy(Get(apt, key))
      flat == Node("Flat",
                   Opt(Has("apartment_number"),
                       Text("FlatNumber", PyStr(Get(apt, "apartment_number"))))
                   \o Opt(Has("section_number"),
                          Text("SectionNumber", PyStr(Get(apt, "section_number")))))
      house == Node("House",
                    Opt(Has("house_id"), Text("Id", PyStr(Get(apt, "house_id"))))
                    \o Opt(Has("building_name"),
                           Text("Name", escape_xml(Get(apt, "building_name"))))
                    \o Opt(Has("apartment_number") \/ Has("section_number"), flat))
  IN  Opt(Truthy(jk_id) \/ Has("complex_name"),
          Node("JKSchema",
               Opt(Truthy(jk_id), Text("Id", PyStr(jk_id)))
               \o Opt(Has("complex_name"), Text("Name", escape_xml(Get(apt, "complex_name"))))
               \o Opt(Has("house_id") \/ Has("building_name")
                      \/ Has("apartment_number") \/ Has("section_number"), house)))

\* the pricing block with the deposit read from the price match
BargainTermsCopied(apt) ==
  LET rental == Rental(apt).s
      Match(g) == IF g # "" THEN StrV(g) ELSE NoneV
      price_match == LabelGroup(rental, "Cena:", Digit \cup Space)
      prepay_match == LabelGroup(rental, "Predoplata:", Digit)
  IN  Node("BargainTerms", <<
        Text("Price", parse_price(Match(price_match))),
        Text("Currency", "RUB"),
        Text("PaymentPeriod", "month"),
        Text("Deposit", parse_price(Match(price_match))),
        Text("Prepay", IF prepay_match # "" THEN prepay_match ELSE "1"),
        Text("ClientFee", "false"),
        Text("LandlordFee", "true"),
        Text("BargainStatus", "approved")>>)

BargainTerms(apt) ==
  LET rental == Rental(apt).s
      Match(g) == IF g # "" THEN StrV(g) ELSE NoneV
      price_match == LabelGroup(rental, "Cena:", Digit \cup Space)
      deposit_match == LabelGroup(rental, "Zalog:", Digit \cup Space)
      prepay_match == LabelGroup(rental, "Predoplata:", Digit)
  IN  Node("BargainTerms", <<
        Text("Price", parse_price(Match(price_match))),
        Text("Currency", "RUB"),
        Text("PaymentPeriod", "month"),
        Text("Deposit", parse_price(Match(deposit_match))),
        Text("Prepay", IF prepay_match # "" THEN prepay_match ELSE "1"),
        Text("ClientFee", "false"),
        Text("LandlordFee", "true"),
        Text("BargainStatus", "approved")>>)

FlatAmenities(apt) ==
  LET amenities == _parse_amenities(Get(apt, "apartment_amenities")).amenities
  IN  Opt(amenities # <<>>,
          Node("FlatAmenities", [i \in 1..Len(amenities) |-> Text("Amenity", amenities[i])]))

\* the clamp with the lower bound off by one
FlatRoomsCountOff(apt) ==
  LET rooms_value == PyInt(Or(Get(apt, "rooms"), IntV(0)))
  IN  IF rooms_value < 0 THEN "1"
      ELSE IF rooms_value > 5 THEN "6"
      ELSE IntToStr(rooms_value)

FlatRoomsCount(apt) ==
  LET rooms_value == PyInt(Or(Get(apt, "rooms"), IntV(0)))
  IN  IF rooms_value <= 0 THEN "1"
      ELSE IF rooms_value > 5 THEN "6"
      ELSE IntToStr(rooms_value)

\* the value handed to _set_bool for IsApartments
IsApartmentsValue(apt) ==
  _get_bool(Or(Get(apt, "is_apartments"),
               Or(Get(apt, "is_apartment"),
                  BoolV(Get(apt, "property_type") = StrV("apartments")))))

\* the children of the Object built for the listing apt at 1-based position
\* index, in the order in which the loop body creates them
ObjectKids(apt, index) ==
  LET auction_bet == Get(apt, "auction_bet")
      details == Get(apt, "apartment_details")
      room_type == _parse_room_type(details, apt)
      beds_count == Or(Get(apt, "beds_count"), Or(Get(apt, "beds"), Get(apt, "bedsNumber")))
      wcs == _parse_bathroom_counts(details)
      separate_wc == Or(wcs[1], Get(apt, "separate_wc_count"))
      combined_wc == Or(wcs[2], Get(apt, "combined_wc_count"))
      loggias_count == IF Truthy(Get(apt, "loggias_count")) THEN Get(apt, "loggias_count")
                       ELSE _parse_count(details, "Lodzhiy")
      balconies_count == IF Truthy(Get(apt, "balconies_count")) THEN Get(apt, "balconies_count")
                         ELSE _parse_count(details, "Balkonov")
      windows_view == _parse_windows(details, apt)
      upToPromotion ==
        <<Text("ExternalId",
               PyStr(Or(Get(apt, "external_id"), StrV("apt_" \o IntToStr(index)))))>>
        \o Opt(Truthy(auction_bet), Node("Auction", <<Text("Bet", PyStr(auction_bet))>>))
        \o <<Leaf("Status", Or(Get(apt, "status"), StrV("published"))),
             Text("Category", "flatRent")>>
        \o Opt(Truthy(room_type), Leaf("RoomType", room_type))
        \o <<Text("Type", "apartment"),
             Node("Address", <<Text("AddressLine", escape_xml(Get(apt, "address")))>>),
             Text("Description", escape_xml(Get(apt, "description"))),
             Text("FlatRoomsCount", FlatRoomsCount(apt))>>
        \o Opt(Truthy(beds_count), Text("BedsCount", PyStr(beds_count)))
        \o <<Text("FloorNumber", PyStr(Or(Get(apt, "floor"), IntV(1)))),
             Text("FloorsTotal", PyStr(Or(Get(apt, "total_floors"), IntV(1)))),
             Text("TotalArea", _extract_float("Ploschadj:", details)),
             Text("LivingSpace", _extract_float("Zhilaya:", details)),
             Text("KitchenSpace", _extract_float("Kuhnya:", details))>>
        \o Opt(Truthy(separate_wc), Text("SeparateWcsCount", PyStr(separate_wc)))
        \o Opt(Truthy(combined_wc), Text("CombinedWcsCount", PyStr(combined_wc)))
        \o Opt(Truthy(loggias_count), Text("LoggiasCount", PyStr(loggias_count)))
        \o Opt(Truthy(balconies_count), Text("BalconiesCount", PyStr(balconies_count)))
        \o Opt(Truthy(windows_view), Leaf("WindowsViewType", windows_view))
        \o <<BargainTerms(apt),
             Photos(apt),
             Leaf("PromotionType", Or(Get(apt, "promotion_type"), StrV("noPromotion")))>>
      upToAmenities ==
        _set_bool(upToPromotion, "IsApartments", IsApartmentsValue(apt))
        \o Contacts(apt)
        \o SubAgent(apt)
        \o <<Building(apt)>>
        \o JKSchema(apt)
        \o FlatAmenities(apt)
  IN  FlagLoop(upToAmenities, apt, 1)

\* the loop body raises for the listing apt: an exception of a statement
\* leaves build_feed, which has no handler
ObjectRaises(apt) ==
  LET details == Get(apt, "apartment_details")
  IN  \/ ~Truthy(Get(apt, "room_type")) /\ NonStrText(details)    \* _parse_room_type
      \/ IntRaises(Or(Get(apt, "rooms"), IntV(0)))                \* int(rooms)
      \/ NonStrText(details)                                      \* _extract_float
      \/ ~IsStr(Rental(apt))                                      \* re.search(.., rental)
      \/ AgentInfo(apt).t # "dict"                                \* agent_info.get
      \/ NonStrText(Get(apt, "house_details"))                    \* re.search(.., house_details)
      \/ NonStrText(Get(apt, "apartment_amenities"))              \* _split_items

\* ET.tostring raises TypeError for an element whose text is neither None
\* nor a string
RECURSIVE CannotSerialize(_)
CannotSerialize(el) ==
  \/ el.text.t \notin {"none", "str"}
  \/ \E i \in 1..Len(el.kids) : CannotSerialize(el.kids[i])

---------------------------------------------------------------------------
(* The text of an element on its way through the serializer: ET.tostring   *)
(* writes it escaped, minidom.parseString reads it, toprettyxml writes it  *)
(* escaped again, and a parser of the returned document reads that.        *)

\* ElementTree writing character data: & < > become entities
RECURSIVE _escape_cdata(_)
_escape_cdata(text) ==
  IF text = "" THEN ""
  ELSE (CASE Head(text) = "&" -> "&amp;"
          [] Head(text) = "<" -> "&lt;"
          [] Head(text) = ">" -> "&gt;"
          [] OTHER            -> Head(text)) \o _escape_cdata(Tail(text))

\* minidom writing character data: & < " > become entities
RECURSIVE _write_data(_)
_write_data(data) ==
  IF data = "" THEN ""
  ELSE (CASE Head(data) = "&"  -> "&amp;"
          [] Head(data) = "<"  -> "&lt;"
          [] Head(data) = "\"" -> "&quot;"
          [] Head(data) = ">"  -> "&gt;"
          [] OTHER             -> Head(data)) \o _write_data(Tail(data))

\* the predefined entities and the characters they stand for
Entities ==
  {<<"&amp;", "&">>, <<"&lt;", "<">>, <<"&gt;", ">">>, <<"&quot;", "\"">>, <<"&apos;", "'">>}

\* an XML parser reading character data: each entity becomes its character
RECURSIVE ParseData(_)
ParseData(s) ==
  IF s = "" THEN ""
  ELSE LET E == {e \in Entities : Len(s) >= Len(e[1]) /\ SubSeq(s, 1, Len(e[1])) = e[1]}
       IN  IF E = {} THEN Head(s) \o ParseData(Tail(s))
           ELSE LET e == CHOOSE x \in E : TRUE
                IN  e[2] \o ParseData(From(s, Len(e[1]) + 1))

\* the text a parser of the returned document gets for an element whose
\* text build_feed set to s
ReadBack(s) == ParseData(_write_data(ParseData(_escape_cdata(s))))

---------------------------------------------------------------------------
(* The data client and the endpoint.  A row of the objects table is a      *)
(* listing; a row of the agents table is a dict value with an id.          *)

\* agent_id not in (None, "")
HasAgentId(row) == Get(row, "agent_id") \notin {NoneV, StrV("")}

\* _load_agents: the rows of the agents table whose id was asked for, keyed
\* by str(id); no query is made when no row has an agent id
_load_agents(objects, agents) ==
  LET ids == {PyStr(Get(objects[i], "agent_id")) : i \in {j \in 1..Len(objects) : HasAgentId(objects[j])}}
  IN  SelectSeq(agents, LAMBDA a : PyStr(DictGet(a, "id")) \in ids)

\* lookup_id in agent_map
InAgentMap(agent_map, lookup_id) ==
  \E j \in 1..Len(agent_map) : PyStr(DictGet(agent_map[j], "id")) = lookup_id

\* agent_map[lookup_id]: of two rows with one id the later one stays
AgentOf(agent_map, lookup_id) ==
  LET J == {j \in 1..Len(agent_map) : PyStr(DictGet(agent_map[j], "id")) = lookup_id}
  IN  agent_map[CHOOSE j \in J : \A k \in J : k <= j]

\* row[key] = value
SetField(row, key, value) == (key :> value) @@ row

\* the back-fill that puts the agent's e-mail over the listing's own
fetch_objects_overwrite(objects, agents) ==
  LET agent_map == _load_agents(objects, agents)
      Attach(row) ==
        IF HasAgentId(row) /\ InAgentMap(agent_map, PyStr(Get(row, "agent_id")))
        THEN LET agent == AgentOf(agent_map, PyStr(Get(row, "agent_id")))
                 with_agent == SetField(row, "agent", agent)
             IN  IF Truthy(DictGet(agent, "email"))
                 THEN SetField(with_agent, "subagent_email", DictGet(agent, "email"))
                 ELSE with_agent
        ELSE row
  IN  [i \in 1..Len(objects) |-> Attach(objects[i])]

\* fetch_objects after the query: each row with a known agent gets the
\* agent attached and, having no sub-agent e-mail, the agent's e-mail
fetch_objects(objects, agents) ==
  LET agent_map == _load_agents(objects, agents)
      Attach(row) ==
        IF HasAgentId(row) /\ InAgentMap(agent_map, PyStr(Get(row, "agent_id")))
        THEN LET agent == AgentOf(agent_map, PyStr(Get(row, "agent_id")))
                 with_agent == SetField(row, "agent", agent)
             IN  IF Truthy(DictGet(agent, "email")) /\ ~Truthy(Get(row, "subagent_email"))
                 THEN SetField(with_agent, "subagent_email", DictGet(agent, "email"))
                 ELSE with_agent
        ELSE row
  IN  IF agent_map = <<>> THEN objects
      ELSE [i \in 1..Len(objects) |-> Attach(objects[i])]

\* the filter that lets every row with a status through
_is_published_any(row) == Truthy(Get(row, "status"))

_is_published(row) ==
  LET status == Get(row, "status")
  IN  CASE status.t = "str"  -> Lower(Strip(status.s)) = "published"
        [] status.t = "bool" -> status.b
        [] OTHER             -> FALSE

\* Response(content=..., media_type="application/xml"): the children of the
\* Feed root of the document sent
Response(content) == [status_code |-> 200, content |-> content]

\* HTTPException(status_code=500, ...): no document
HTTPException == [status_code |-> 500, content |-> <<>>]

---------------------------------------------------------------------------
(* build_feed as a state machine: apartments is the batch, idx the number  *)
(* of listings the loop has processed, feed the children of the Feed root, *)
(* pc the position: "loop", then "done" (the document is returned) or      *)
(* "raised" (an exception left build_feed).  A normalizer called on its    *)
(* own has pc set to its name, arg its argument and ret the values its     *)
(* calls returned so far.                                                  *)

\* calls in a row of a normalizer, each on the result of the one before
MaxCalls == 2

\* the loop body putting each Object in front of the Objects built so far
BuildObjectFirst ==
  /\ pc = "loop"
  /\ idx < Len(apartments)
  /\ LET apt == apartments[idx + 1]
     IN  IF ObjectRaises(apt)
         THEN pc' = "raised" /\ UNCHANGED <<idx, feed>>
         ELSE /\ feed' = <<Head(feed), Node("Object", ObjectKids(apt, idx + 1))>> \o Tail(feed)
              /\ idx' = idx + 1
              /\ pc' = pc
  /\ UNCHANGED <<apartments, arg, ret>>

\* the loop body that takes the fields off the listing it has used
BuildObjectConsuming ==
  /\ pc = "loop"
  /\ idx < Len(apartments)
  /\ LET apt == apartments[idx + 1]
     IN  IF ObjectRaises(apt)
         THEN pc' = "raised" /\ UNCHANGED <<idx, feed, apartments>>
         ELSE /\ feed' = Append(feed, Node("Object", ObjectKids(apt, idx + 1)))
              /\ idx' = idx + 1
              /\ pc' = pc
              /\ apartments' = [apartments EXCEPT ![idx + 1] = [k \in {} |-> NoneV]]
  /\ UNCHANGED <<arg, ret>>

\* one iteration of: for idx, apt in enumerate(apartments, start=1)
BuildObject ==
  /\ pc = "loop"
  /\ idx < Len(apartments)
  /\ LET apt == apartments[idx + 1]
     IN  IF ObjectRaises(apt)
         THEN pc' = "raised" /\ UNCHANGED <<idx, feed>>
         ELSE /\ feed' = Append(feed, Node("Object", ObjectKids(apt, idx + 1)))
              /\ idx' = idx + 1
              /\ pc' = pc
  /\ UNCHANGED <<apartments, arg, ret>>

\* ET.tostring, minidom pretty-printing and return
Serialize ==
  /\ pc = "loop"
  /\ idx = Len(apartments)
  /\ pc' = IF CannotSerialize(Node("Feed", feed)) THEN "raised" ELSE "done"
  /\ UNCHANGED <<apartments, idx, feed, arg, ret>>

\* one call of _normalize_phone: on the argument, then on what the call
\* before returned
NormalizePhone ==
  /\ pc = "_normalize_phone"
  /\ Len(ret) < MaxCalls
  /\ ret' = Append(ret, _normalize_phone(IF ret = <<>> THEN arg ELSE ret[Len(ret)]))
  /\ UNCHANGED <<apartments, idx, feed, pc, arg>>

\* the call parse_price(arg)
ParsePrice ==
  /\ pc = "parse_price"
  /\ ret = <<>>
  /\ ret' = <<StrV(parse_price(arg))>>
  /\ UNCHANGED <<apartments, idx, feed, pc, arg>>

\* get_feed up to the call of fetch_objects: without a client, or when the
\* query fails, the request ends with HTTP 500
FetchObjects ==
  /\ pc = "get_feed"
  /\ IF arg.client = "ok"
     THEN /\ apartments' = fetch_objects(arg.objects, arg.agents)
          /\ pc' = "fetched"
          /\ ret' = ret
     ELSE /\ ret' = <<HTTPException>>
          /\ pc' = "responded"
          /\ apartments' = apartments
  /\ UNCHANGED <<idx, feed, arg>>

\* the published rows are kept; with none of them the stored minimal
\* document is sent, else build_feed starts on them
FilterPublished ==
  /\ pc = "fetched"
  /\ apartments' = SelectSeq(apartments, _is_published)
  /\ IF apartments' = <<>>
     THEN /\ ret' = <<Response(<<Text("Feed_Version", "2")>>)>>
          /\ pc' = "responded"
          /\ feed' = feed
     ELSE /\ feed' = <<Text("Feed_Version", "2")>>
          /\ pc' = "loop"
          /\ ret' = ret
  /\ UNCHANGED <<idx, arg>>

\* the document build_feed returned is sent; an exception that left it
\* becomes HTTP 500
Respond ==
  /\ pc \in {"done", "raised"}
  /\ arg.t = "request"
  /\ ret' = <<IF pc = "done" THEN Response(feed) ELSE HTTPException>>
  /\ pc' = "responded"
  /\ UNCHANGED <<apartments, idx, feed, arg>>

\* the call _collect_phones(*arg)
CollectPhones ==
  /\ pc = "_collect_phones"
  /\ ret = <<>>
  /\ ret' = <<_collect_phones(arg)>>
  /\ UNCHANGED <<apartments, idx, feed, pc, arg>>

\* build_feed is called again on the batch the first call was given; ret
\* keeps the document the first call returned
Reinvoke ==
  /\ pc = "done"
  /\ arg = NoneV
  /\ ret = <<>>
  /\ ret' = <<feed>>
  /\ feed' = <<Text("Feed_Version", "2")>>
  /\ idx' = 0
  /\ pc' = "loop"
  /\ UNCHANGED <<apartments, arg>>

\* the call _split_phone(arg)
SplitPhone ==
  /\ pc = "_split_phone"
  /\ ret = <<>>
  /\ ret' = <<_split_phone(arg.s)>>
  /\ UNCHANGED <<apartments, idx, feed, pc, arg>>

Next == BuildObject \/ Serialize

\* two calls of build_feed in a row
NextTwice == BuildObject \/ Serialize \/ Reinvoke

\* GET /feed.xml
NextGetFeed == FetchObjects \/ FilterPublished \/ BuildObject \/ Serialize \/ Respond

---------------------------------------------------------------------------
(* Inputs.  A listing is a record of the fields it has; the batches below  *)
(* put one listing under study after a prefix of empty listings, or are    *)
(* all short sequences over a handful of listings.                         *)

\* longest batch
MaxBatch == 2

\* the listing with no fields at all
Empty == [k \in {} |-> NoneV]

SeqsUpTo(S, n) == UNION {[1..k -> S] : k \in 0..n}

\* the listings of L, each at every position 1..MaxBatch behind empty listings
Probes(L) == {pre \o <<l>> : pre \in SeqsUpTo({Empty}, MaxBatch - 1), l \in L}

\* every key build_feed reads
AllFields ==
  {"external_id", "auction_bet", "status", "room_type", "apartment_details",
   "address", "description", "rooms", "beds_count", "beds", "bedsNumber",
   "floor", "total_floors", "separate_wc_count", "combined_wc_count",
   "loggias_count", "balconies_count", "windows_view_type",
   "rental_conditions", "main_photo_url", "photos_json", "promotion_type",
   "is_apartments", "is_apartment", "property_type", "agent", "agent_name",
   "agent_full_name", "agent_email", "agent_phone", "subagent_first_name",
   "subagent_last_name", "subagent_email", "subagent_phone",
   "subagent_avatar_url", "complex_name", "house_details", "jk_id",
   "complex_id", "house_id", "building_name", "apartment_number",
   "section_number", "apartment_amenities", "has_room_furniture"}
  \cup {bool_specs[i][2] : i \in 1..Len(bool_specs)}

\* listings whose every field is None or empty
BlankListings ==
  {Empty, [f \in AllFields |-> NoneV], [f \in AllFields |-> StrV("")]}
  \cup {[g \in {f} |-> v] : f \in AllFields, v \in {NoneV, StrV("")}}
  \cup {[photos_json |-> ListV(<<>>), agent |-> EmptyDict],
        [photos_json |-> EmptyDict, agent |-> NoneV]}

\* one small listing per optional element, each on fields of its own
OptionalDrivers ==
  {[auction_bet |-> IntV(5)],
   [room_type |-> StrV("free")],
   [beds |-> IntV(2)],
   [separate_wc_count |-> IntV(1)],
   [combined_wc_count |-> StrV("2")],
   [loggias_count |-> IntV(1)],
   [balconies_count |-> IntV(3)],
   [windows_view_type |-> StrV("yard")],
   [agent_phone |-> StrV("9991234567")],
   [subagent_first_name |-> StrV("Ivan")],
   [jk_id |-> IntV(7)],
   [apartment_amenities |-> StrV("Balkon")]}
  \cup {[g \in {bool_specs[i][2]} |-> BoolV(TRUE)] : i \in 1..Len(bool_specs)}

\* a listing whose optional elements all come from the free texts
TextDriven ==
  [apartment_details |->
     StrV("Ploschadj: 45,6 Zhilaya: 20.5 Kuhnya: 9. Planirovka: smezhnaya. Sanuzel: 2 razdeljnyh sovm Lodzhiy: 1 Balkonov: 2. Okna: na ulicu i vo dvor"),
   rental_conditions |-> StrV("Cena: 50 000 rub. Zalog: 25000 Predoplata: 2. Mozhno s zhivotnymi, bez detey"),
   house_details |-> StrV("God: 1987"),
   apartment_amenities |-> StrV("Holodiljnik, Internet; telefon\nMebelj na kuhne, Televizor, Stiraljnaya mashina, Kondicioner, Vanna, Dushevaya kabina, Posudomoechnaya mashina"),
   agent |-> DictV(<<"name", "phone", "email">>,
                   <<StrV("Ivan"), StrV("8 (999) 123-45-67"), StrV("i@x.ru")>>),
   has_ramp |-> StrV("da"),
   complex_name |-> StrV("Park"),
   subagent_last_name |-> StrV("Petrov"),
   beds_count |-> IntV(1),
   auction_bet |-> StrV("10")]

\* a listing that has every optional element
Full ==
  [external_id |-> StrV("a1"), auction_bet |-> IntV(5), status |-> StrV("published"),
   room_type |-> StrV("both"), address |-> StrV("Dom 5"), description |-> StrV("x&y"),
   rooms |-> IntV(3), beds |-> IntV(2), floor |-> IntV(4), total_floors |-> IntV(9),
   apartment_details |-> StrV("Ploschadj: 45 Sanuzel: sovm razdeljnyy Lodzhiy: 1 Balkonov: 1"),
   windows_view_type |-> StrV("street"),
   rental_conditions |-> StrV("Cena: 50 000 Zalog: 1"),
   main_photo_url |-> StrV("A"), photos_json |-> ListV(<<StrV("B")>>),
   promotion_type |-> StrV("top3"), is_apartments |-> BoolV(TRUE),
   agent |-> DictV(<<"name", "phones", "email">>,
                   <<StrV("Ivan"), ListV(<<StrV("89991234567")>>), StrV("i@x.ru")>>),
   subagent_first_name |-> StrV("Ivan"), subagent_email |-> StrV("s@x.ru"),
   complex_name |-> StrV("Park"), jk_id |-> IntV(7), house_id |-> IntV(1),
   apartment_number |-> StrV("12"),
   apartment_amenities |-> StrV("Holodiljnik, Balkon")]
  @@ [f \in {bool_specs[i][2] : i \in 1..Len(bool_specs)} |-> BoolV(TRUE)]

\* listings for the element order: none, one, two or all optional elements
OrderListings ==
  {Empty, Full, TextDriven} \cup OptionalDrivers
  \cup {a @@ b : a \in OptionalDrivers, b \in OptionalDrivers}

\* listings told apart by their identity and address
IdListings ==
  {Empty,
   [external_id |-> StrV("a1"), address |-> StrV("Dom 5")],
   [external_id |-> IntV(7)],
   [address |-> StrV("Dom 6"), status |-> StrV("draft")]}

\* listings with a field of the wrong type, next to well-typed ones
ShapeListings ==
  {[rooms |-> v] : v \in {StrV("abc"), StrV("3.5"), StrV(" 2 "), IntV(3),
                          BoolV(TRUE), ListV(<<IntV(1)>>)}}
  \cup {[agent |-> v] : v \in {StrV("agent"), IntV(5), BoolV(TRUE),
                               ListV(<<StrV("a")>>), IntV(0),
                               DictV(<<"phone">>, <<StrV("9991234567")>>)}}
  \cup {[g \in {f} |-> v] :
          f \in {"apartment_details", "rental_conditions", "house_details",
                 "apartment_amenities"},
          v \in {IntV(5), BoolV(TRUE), ListV(<<IntV(1)>>),
                 DictV(<<"a">>, <<IntV(1)>>), IntV(0), BoolV(FALSE),
                 ListV(<<>>), StrV("God: 1987, Cena: 5")}}
  \cup {[g \in {f} |-> v] :
          f \in {"status", "promotion_type"},
          v \in {BoolV(TRUE), IntV(1), BoolV(FALSE), StrV("published")}}
  \cup {[room_type |-> StrV("free"), apartment_details |-> IntV(5)],
        [loggias_count |-> IntV(1), apartment_details |-> BoolV(TRUE)]}

\* the explicit values of a boolean field
FlagValues ==
  {BoolV(TRUE), BoolV(FALSE), StrV("da"), StrV(" NET "), StrV("maybe"),
   IntV(0), IntV(2)}

\* nothing, or an amenity text
AmenityTexts ==
  {Empty}
  \cup {[apartment_amenities |-> StrV(t)] :
          t \in {"Internet, Holodiljnik; TELEFON\nmebelj na kuhne, Televizor, stiraljnaya mashina",
                 "Kondicioner,Vanna, Dushevaya kabina ;Posudomoechnaya mashina",
                 "internet kabelj, vanna-dzhakuzi, Mebelj",
                 "Mebelj v komnatah"}}

\* one explicit boolean field, or none, with or without an amenity text
FlagListings ==
  AmenityTexts
  \cup {[g \in {f} |-> v] @@ a :
          f \in {bool_specs[i][2] : i \in 1..Len(bool_specs)},
          v \in FlagValues, a \in AmenityTexts}

\* the three furniture fields, each absent, true or false, with the
\* furniture keywords or without
FurnitureListings ==
  LET Field(f) == {Empty} \cup {[g \in {f} |-> BoolV(b)] : b \in BOOLEAN}
  IN  {hf @@ hr @@ hk @@ a :
         hf \in Field("has_furniture"), hr \in Field("has_room_furniture"),
         hk \in Field("has_kitchen_furniture"),
         a \in {Empty, [apartment_amenities |-> StrV("Mebelj v komnatah")],
                [apartment_amenities |-> StrV("Balkon; MEBELJ NA KUHNE")]}}

\* the three fields behind IsApartments
ApartmentsListings ==
  {a @@ b @@ c :
     a \in {Empty} \cup {[is_apartments |-> v] :
                           v \in {BoolV(TRUE), BoolV(FALSE), StrV("maybe"), NoneV}},
     b \in {Empty} \cup {[is_apartment |-> v] : v \in {BoolV(TRUE), StrV("net")}},
     c \in {Empty} \cup {[property_type |-> v] :
                           v \in {StrV("apartments"), StrV("flat")}}}

\* every combination of the complex, house and unit identifiers
JKListings ==
  LET Field(f, v) == {Empty, [g \in {f} |-> v]}
  IN  {a @@ b @@ c @@ d @@ e @@ f @@ g :
         a \in Field("jk_id", IntV(7)), b \in Field("complex_id", StrV("c1")),
         c \in Field("complex_name", StrV("Park")),
         d \in Field("house_id", StrV("h1")),
         e \in Field("building_name", StrV("K2")),
         f \in Field("apartment_number", IntV(12)),
         g \in Field("section_number", StrV("3"))}

MaxPhotos == 3

\* the values found in photos_json
PhotoVals == {StrV("A"), StrV("B"), StrV("a&b"), StrV("")}

\* photos_json as a list, as a mapping, or as something else
PhotoSets ==
  LET keys == <<"x", "y", "z", "u", "v", "w">>
      lists == SeqsUpTo(PhotoVals, MaxPhotos)
  IN  {ListV(l) : l \in lists}
      \cup {DictV(SubSeq(keys, 1, Len(l)), l) : l \in lists}
      \cup {StrV("A,B"), NoneV, IntV(5),
            ListV(<<NoneV, IntV(5), StrV("5"), BoolV(FALSE)>>)}

PhotoListings ==
  {m @@ [photos_json |-> ps] :
     m \in {Empty} \cup {[main_photo_url |-> v] :
                           v \in {StrV("A"), StrV("a&b"), StrV(""), IntV(5)}},
     ps \in PhotoSets}
  \cup {[main_photo_url |-> StrV("B")], [main_photo_url |-> NoneV]}

\* the attached agent record
AgentRecords ==
  LET Field(k, V) == {<<>>} \cup {<<<<k, v>>>> : v \in V}
      Rec(p) == DictV([j \in 1..Len(p) |-> p[j][1]], [j \in 1..Len(p) |-> p[j][2]])
  IN  {Rec(a \o b \o c \o d) :
         a \in Field("name", {StrV("Ivan")}),
         b \in Field("email", {StrV("i@x.ru")}),
         c \in Field("phone", {StrV("89991234567"), StrV("net"), StrV("")}),
         d \in Field("phones", {ListV(<<StrV("9991234567"), NoneV>>), ListV(<<>>),
                                ListV(<<StrV("net")>>),
                                DictV(<<"a">>, <<StrV("+7 999 123 45 67")>>),
                                StrV("111;222/")})}

ContactListings ==
  {a @@ p @@ n :
     a \in {Empty, [agent |-> NoneV]} \cup {[agent |-> r] : r \in AgentRecords},
     p \in {Empty} \cup {[agent_phone |-> v] :
                           v \in {StrV("8 (999) 123-45-67"), StrV("-"), IntV(99912345)}},
     n \in {Empty, [agent_name |-> StrV("Petr"), agent_email |-> StrV("p@x.ru")],
            [agent_full_name |-> StrV("Petr P")]}}

\* a listing with a name and an e-mail but no phone, ahead of one with all
ContactPairs ==
  {<<[agent_name |-> StrV("Petr"), agent_email |-> StrV("p@x.ru")],
     [agent |-> DictV(<<"name", "email", "phone">>,
                      <<StrV("Ivan"), StrV("i@x.ru"), StrV("89991234567")>>)]>>}

\* rental texts put together from a price, a deposit and a prepayment
\* phrase (each possibly missing) in every order, behind other text or not;
\* each text comes with the three numbers written in it
RentalCases ==
  LET Prices == {[s |-> "Cena: 50 000 rub. ", v |-> "50000"],
                 [s |-> "Cena:7, ", v |-> "7"],
                 [s |-> "Cena: 1" \o NBSP \o "200 ", v |-> "1200"],
                 [s |-> "Cena: dogovornaya ", v |-> "0"],
                 [s |-> "", v |-> "0"]}
      Deposits == {[s |-> "Zalog: 25000. ", v |-> "25000"],
                   [s |-> "Zalog: 10 000 ", v |-> "10000"],
                   [s |-> "Zalog: net. ", v |-> "0"],
                   [s |-> "", v |-> "0"]}
      Prepays == {[s |-> "Predoplata: 2 mesyaca. ", v |-> "2"],
                  [s |-> "Predoplata:3 ", v |-> "3"],
                  [s |-> "Predoplata: net, ", v |-> "1"],
                  [s |-> "", v |-> "1"]}
      Orders == {<<1, 2, 3>>, <<1, 3, 2>>, <<2, 1, 3>>, <<2, 3, 1>>, <<3, 1, 2>>, <<3, 2, 1>>}
  IN  {[text |-> other \o <<p.s, d.s, r.s>>[o[1]] \o <<p.s, d.s, r.s>>[o[2]]
                       \o <<p.s, d.s, r.s>>[o[3]],
        price |-> p.v, deposit |-> d.v, prepay |-> r.v] :
         p \in Prices, d \in Deposits, r \in Prepays, o \in Orders,
         other \in {"", "Mozhno s zhivotnymi. "}}

RentalListings == {[rental_conditions |-> StrV(c.text)] : c \in RentalCases}

\* largest number of rooms, either sign
MaxRooms == 12

\* the rooms field holding an integer, as a number or as its decimal text,
\* next to the integer it holds
RoomsCases ==
  {[v |-> IntV(r), r |-> r] : r \in -MaxRooms..MaxRooms}
  \cup {[v |-> StrV(IntToStr(r)), r |-> r] : r \in -MaxRooms..MaxRooms}

RoomsListings ==
  {Empty, [rooms |-> NoneV], [rooms |-> StrV("")]}
  \cup {[rooms |-> c.v] : c \in RoomsCases}

\* apartment details with a bathroom phrase (or none) between other
\* phrases, next to explicit count fields; sep and comb are the counts the
\* bathroom phrase states ("" for none)
BathroomCases ==
  LET Phrases == {[s |-> "Sanuzel: razdeljnyy", sep |-> "1", comb |-> ""],
                  [s |-> "Sanuzel: 2 sovmeschennyh", sep |-> "", comb |-> "2"],
                  [s |-> "SANUZEL: sovm", sep |-> "", comb |-> "1"],
                  [s |-> "Sanuzel: razdeljnyy i sovmeschennyy 2", sep |-> "2", comb |-> "2"],
                  [s |-> "Sanuzel:razdeljnyy-3", sep |-> "3", comb |-> ""],
                  [s |-> "Sanuzel: estj", sep |-> "", comb |-> ""],
                  [s |-> "Sanuzel: 0 razdeljnyh", sep |-> "0", comb |-> ""],
                  [s |-> "", sep |-> "", comb |-> ""]}
      Fields == {Empty, [separate_wc_count |-> IntV(3)],
                 [separate_wc_count |-> IntV(0), combined_wc_count |-> StrV("4")],
                 [separate_wc_count |-> IntV(3), combined_wc_count |-> StrV("4")]}
  IN  {[apt |-> [apartment_details |-> StrV(before \o b.s \o after)] @@ f,
        sep |-> b.sep, comb |-> b.comb] :
         b \in Phrases, f \in Fields,
         before \in {"", "Ploschadj: 45 ", "Balkonov: 2 "},
         after \in {"", ", Balkonov: 3", " Lodzhiy: 2", ". Okna: vo dvor", "\nBalkonov: 1"}}

BathroomListings == {c.apt : c \in BathroomCases}

\* apartment details with a windows phrase (or none) between other
\* sentences, next to the explicit field; view is what the phrase says
\* ("" for nothing)
WindowsCases ==
  LET Phrases == {[s |-> "Okna: na ulicu i vo dvor", view |-> "streetAndYard"],
                  [s |-> "Okna: vo dvor", view |-> "yard"],
                  [s |-> "Okna: na Ulicu", view |-> "street"],
                  [s |-> "Okna:DVOR, ulica", view |-> "streetAndYard"],
                  [s |-> "Okna: na yug", view |-> ""],
                  [s |-> "okna: vo dvor", view |-> ""],
                  [s |-> "Okna: ", view |-> ""],
                  [s |-> "", view |-> ""]}
  IN  {[apt |-> [apartment_details |-> StrV(before \o w.s \o after)] @@ f,
        view |-> w.view] :
         w \in Phrases,
         f \in {Empty} \cup {[windows_view_type |-> StrV(v)] :
                                v \in {"", "yard", "Custom <view>"}},
         before \in {"", "Ploschadj: 45. "},
         after \in {"", ". Planirovka: smezhnaya", ". Ulica tihaya, dvor zakryt"}}

WindowsListings == {c.apt : c \in WindowsCases}

\* the same for the layout phrase; type is what the phrase says
LayoutCases ==
  LET Phrases ==
        {[s |-> "Planirovka: sovmeschenno-izolirovannaya", type |-> "both"],
         [s |-> "Planirovka: izolirovannaya, sovmeschennaya", type |-> "both"],
         [s |-> "Planirovka: svobodnaya, sovmeschennaya izolirovannaya", type |-> "both"],
         [s |-> "Planirovka: svobodnaya", type |-> "free"],
         [s |-> "Planirovka: izolirovannaya, svobodnaya", type |-> "free"],
         [s |-> "Planirovka: smezhnaya, svobodnaya", type |-> "free"],
         [s |-> "Planirovka: smezhnaya i izolirovannaya", type |-> "separated"],
         [s |-> "Planirovka: izolirovannaya", type |-> "separated"],
         [s |-> "Planirovka: smezhnaya", type |-> "adjacent"],
         [s |-> "Planirovka: SMEZH", type |-> "adjacent"],
         [s |-> "Planirovka: obychnaya", type |-> ""],
         [s |-> "planirovka: smezhnaya", type |-> ""],
         [s |-> "", type |-> ""]}
  IN  {[apt |-> [apartment_details |-> StrV(before \o l.s \o after)] @@ f,
        type |-> l.type] :
         l \in Phrases,
         f \in {Empty} \cup {[room_type |-> StrV(v)] : v \in {"", "free", "Studio"}},
         before \in {"", "Okna: vo dvor. "},
         after \in {"", ". Okna: vo dvor", ". Komnaty izolirovannye"}}

LayoutListings == {c.apt : c \in LayoutCases}

\* rental texts with permitting and forbidding phrases, next to the
\* explicit fields; pets and children are what the text says (None for
\* nothing)
CueCases ==
  LET Yes == BoolV(TRUE)
      No == BoolV(FALSE)
      Texts ==
        {[s |-> "Mozhno s zhivotnymi, bez detey", pets |-> Yes, children |-> No],
         [s |-> "bez zhivotnyh. S detjmi", pets |-> No, children |-> Yes],
         [s |-> "Cena: 5", pets |-> NoneV, children |-> NoneV],
         [s |-> "BEZ ZHIVOTNYH", pets |-> No, children |-> NoneV],
         [s |-> "Bez zhivotnyh, no s zhivotnymi po dogovorennosti",
          pets |-> Yes, children |-> NoneV],
         [s |-> "s detjmi i zhivotnymi", pets |-> NoneV, children |-> Yes],
         [s |-> "Bez detey, toljko s detjmi starshe 7", pets |-> NoneV, children |-> Yes],
         [s |-> "", pets |-> NoneV, children |-> NoneV]}
  IN  {[apt |-> [rental_conditions |-> StrV(t.s)] @@ p @@ c,
        pets |-> t.pets, children |-> t.children] :
         t \in Texts,
         p \in {Empty} \cup {[pets_allowed |-> v] :
                                v \in {BoolV(TRUE), BoolV(FALSE), StrV("da"),
                                       StrV("maybe"), IntV(0)}},
         c \in {Empty} \cup {[children_allowed |-> v] : v \in {StrV("net"), BoolV(TRUE)}}}

CueListings == {c.apt : c \in CueCases}

\* most items in an amenity text
MaxItems == 3

\* the items written one after the other with sep between them
RECURSIVE Join(_, _)
Join(items, sep) ==
  IF items = <<>> THEN ""
  ELSE IF Len(items) = 1 THEN items[1]
  ELSE items[1] \o sep \o Join(Tail(items), sep)

\* amenity texts: up to MaxItems items, from the vocabulary or not, written
\* with one of the separators, with or without separators around them; each
\* text comes with its items
AmenityCases ==
  {[text |-> pad[1] \o Join(items, sep) \o pad[2], items |-> items] :
     items \in SeqsUpTo({"Holodiljnik", "Internet", "vanna", "Wi-Fi & TV"}, MaxItems),
     sep \in {", ", ";\n", " ; ,"},
     pad \in {<<"", "">>, <<" ,", "; ">>}}

AmenityListings == {[apartment_amenities |-> StrV(c.text)] : c \in AmenityCases}

\* listings for the batches build_feed is called on twice
TwiceListings ==
  IdListings
  \cup {Full,
        [rental_conditions |-> StrV("Cena: 50 000 bez detey"),
         apartment_amenities |-> StrV("Internet, Vanna"),
         agent_phone |-> StrV("8 (999) 123-45-67; 111")]}

\* texts with and without the reserved characters
ReservedTexts == {"Dom 5", "A&B", "a<b>c", "say \"hi\"", "O'Neil", "&amp;"}

\* listings with one of the texts in a field that goes into the document
\* as text
RoundTripListings ==
  {[address |-> StrV(s)] : s \in ReservedTexts}
  \cup {[description |-> StrV(s)] : s \in ReservedTexts}
  \cup {[main_photo_url |-> StrV(s)] : s \in ReservedTexts}
  \cup {[agent_phone |-> StrV("89991234567"), agent_name |-> StrV(s)] : s \in ReservedTexts}
  \cup {[agent_phone |-> StrV("89991234567"), agent_email |-> StrV(s)] : s \in ReservedTexts}
  \cup {[subagent_first_name |-> StrV(s), subagent_email |-> StrV(s)] : s \in ReservedTexts}
  \cup {[subagent_last_name |-> StrV(s), subagent_avatar_url |-> StrV(s),
         subagent_phone |-> StrV(s)] : s \in ReservedTexts}

\* apartment details with one labelled area (Ploschadj: total, Zhilaya:
\* living, Kuhnya: kitchen) written with a comma or a dot as the decimal
\* mark, or without one, and followed by nothing, by a space, or directly
\* by the comma or full stop that ends the phrase
AreaListings ==
  {[apartment_details |-> StrV(label \o sp \o value \o follow)] :
     label \in {"Ploschadj:", "Zhilaya:", "Kuhnya:"},
     sp \in {"", " "},
     value \in {"45", "45,5", "45.5", "7"},
     follow \in {"", " m", ", Zhilaya: 20", ". Etazh 3", ",", "\nKuhnya: 9,5."}}

\* spellings of phones of five to thirteen digits, each with its
\* normalized form; the first two spell one number
SchemaSpellings ==
  {[raw |-> "8 (916) 123-45-67",  norm |-> "+79161234567"],
   [raw |-> "+7 916 123 45 67",   norm |-> "+79161234567"],
   [raw |-> "9261234567",         norm |-> "+79261234567"],
   [raw |-> "+44 20 7946 0958",   norm |-> "+442079460958"],
   [raw |-> "+1 202 555 0123 99", norm |-> "+1202555012399"],
   [raw |-> "4951234567",         norm |-> "+4951234567"],
   [raw |-> "12345",              norm |-> "+12345"]}

\* listings whose agent_phone holds one or two of the spellings, each with
\* the normalized forms of its phones in the order written
SchemaCases ==
  {[apt |-> [agent_phone |-> StrV(a.raw)], norms |-> <<a.norm>>] : a \in SchemaSpellings}
  \cup {[apt |-> [agent_phone |-> StrV(a.raw \o "; " \o b.raw)], norms |-> <<a.norm, b.norm>>] :
          a \in SchemaSpellings, b \in SchemaSpellings}

SchemaListings == {c.apt : c \in SchemaCases}

\* listings with and without an id of their own; two ids look like the
\* ids given to listings without one
OwnIdListings ==
  {Empty, [external_id |-> StrV("")], [address |-> StrV("Dom 5")]}
  \cup {[external_id |-> v] : v \in {StrV("x1"), StrV("apt_1"), StrV("apt_2"), IntV(7), StrV("7")}}

\* the agents table: an agent with an e-mail and one without
AgentsTable ==
  <<DictV(<<"id", "name", "email", "phone">>,
          <<IntV(5), StrV("Ivan"), StrV("i@x.ru"), StrV("89991234567")>>),
    DictV(<<"id", "name", "email">>, <<IntV(6), StrV("Oleg"), NoneV>>)>>

\* published rows with every choice of sub-agent fields and every way of
\* pointing at an agent: no id, an empty one, a known one (as a number and
\* as text), the id of the agent without e-mail, an unknown id
SubAgentRows ==
  {[status |-> StrV("published")] @@ n @@ e @@ p @@ a @@ g :
     n \in {Empty, [subagent_first_name |-> StrV("Ann")], [subagent_last_name |-> StrV("Lee")],
            [subagent_first_name |-> StrV("Ann"), subagent_last_name |-> StrV("Lee")],
            [subagent_first_name |-> StrV("")],
            [subagent_first_name |-> NoneV, subagent_last_name |-> StrV("")]},
     e \in {Empty, [subagent_email |-> StrV("s@x.ru")], [subagent_email |-> StrV("")]},
     p \in {Empty, [subagent_phone |-> IntV(5550101)]},
     a \in {Empty, [subagent_avatar_url |-> StrV("http://x/a.png")]},
     g \in {Empty} \cup {[agent_id |-> v] :
                           v \in {NoneV, StrV(""), IntV(5), StrV("5"), IntV(6), IntV(9)}}}

\* rows of every status, two of them published under different ids
StatusRows ==
  {[external_id |-> StrV("a"), status |-> StrV("published")],
   [external_id |-> StrV("b"), status |-> StrV("published")],
   [external_id |-> StrV("b"), status |-> StrV(" Published\n")],
   [external_id |-> StrV("a"), status |-> StrV("draft")],
   [external_id |-> StrV("b"), status |-> BoolV(TRUE)],
   [external_id |-> StrV("a"), status |-> BoolV(FALSE)],
   [external_id |-> StrV("a"), status |-> IntV(1)],
   [external_id |-> StrV("a")]}

\* a request: the state of the client (configured and answering, not
\* configured, failing) and the two tables the client reads
Request(client, objects, agents) ==
  [t |-> "request", client |-> client, objects |-> objects, agents |-> agents]

GetFeedRequests ==
  {Request("ok", <<row>>, agents) : row \in SubAgentRows, agents \in {<<>>, AgentsTable}}
  \cup {Request("ok", objects, AgentsTable) : objects \in SeqsUpTo(StatusRows, MaxBatch)}
  \cup {Request(client, objects, <<>>) : client \in {"none", "fails"},
                                        objects \in SeqsUpTo(StatusRows, 1)}

\* most values in one source
MaxValues == 2

\* spellings of phone numbers, each with the number it normalizes to, if
\* any: the first two spell one number
TextSpellings ==
  {[raw |-> "8 (916) 123-45-67", norm |-> "+79161234567"],
   [raw |-> "+7 916 123 45 67",  norm |-> "+79161234567"],
   [raw |-> "9261234567",        norm |-> "+79261234567"],
   [raw |-> " 495 1234 ",        norm |-> "+4951234"],
   [raw |-> "abc",               norm |-> ""],
   [raw |-> "",                  norm |-> ""]}

\* values of a list or a mapping
ValueSpellings ==
  {[val |-> StrV(s.raw), norm |-> s.norm] : s \in TextSpellings}
  \cup {[val |-> IntV(4951234), norm |-> "+4951234"], [val |-> NoneV, norm |-> ""]}

\* calls of _collect_phones, each with the numbers its values normalize to,
\* in the order of the values ("" for a value that does not normalize): one
\* source holding up to MaxValues values as a list, as a mapping or as a
\* delimited text, and two sources of one value each in mixed forms
CollectCases ==
  LET Vals(vs)   == [j \in 1..Len(vs) |-> vs[j].val]
      Norms(vs)  == [j \in 1..Len(vs) |-> vs[j].norm]
      Raws(ts)   == [j \in 1..Len(ts) |-> ts[j].raw]
      Keys(vs)   == [j \in 1..Len(vs) |-> "k" \o NatToStr(j)]
      Single     == {[source |-> StrV(s.raw), norm |-> s.norm] : s \in TextSpellings}
                    \cup {[source |-> ListV(<<v.val>>), norm |-> v.norm] : v \in ValueSpellings}
                    \cup {[source |-> DictV(<<"k">>, <<v.val>>), norm |-> v.norm] : v \in ValueSpellings}
                    \cup {[source |-> NoneV, norm |-> ""]}
  IN  {[sources |-> <<ListV(Vals(vs))>>, norms |-> Norms(vs)] :
         vs \in SeqsUpTo(ValueSpellings, MaxValues)}
      \cup {[sources |-> <<DictV(Keys(vs), Vals(vs))>>, norms |-> Norms(vs)] :
              vs \in SeqsUpTo(ValueSpellings, MaxValues)}
      \cup {[sources |-> <<StrV(Join(Raws(ts), sep))>>, norms |-> Norms(ts)] :
              ts \in SeqsUpTo(TextSpellings, MaxValues) \ {<<>>},
              sep \in {";", ",", "/", ";, "}}
      \cup {[sources |-> <<a.source, b.source>>, norms |-> <<a.norm, b.norm>>] :
              a \in Single, b \in Single}

\* most digits of a phone
MaxDigits == 12

\* normalized phones of 1 to MaxDigits digits: what _normalize_phone makes
\* of runs of digits with different first digits
NormalizedPhones ==
  {_normalize_phone(StrV(lead \o SubSeq("234567890123456789", 1, n - 1))) :
     lead \in {"7", "8", "9", "1", "0", "4"}, n \in 1..MaxDigits}

\* phone texts: a head, a run of digits and a tail, so that the digits
\* number 0 to 13 and start with 7, 8, 9 or something else
PhoneTexts ==
  {NoneV}
  \cup {StrV(h \o m \o t) :
          h \in {"", "+", "8", "7", "9", "1", "+7 ", "8 ("},
          m \in {"", "9", "999", "9991234567", "999123456", "99912345678",
                 "1234567890", "495) 111-22-33"},
          t \in {"", "-", "x", "0", " ext"}}

\* longest price text
MaxPriceLen == 4

\* the texts of at most n characters over the alphabet A
RECURSIVE TextsUpTo(_, _)
TextsUpTo(A, n) ==
  IF n = 0 THEN {""}
  ELSE LET S == TextsUpTo(A, n - 1) IN S \cup {t \o a : t \in S, a \in A}

\* price texts: nothing, every short text of digits, spaces, no-break
\* spaces, line breaks and a letter, and a price with its currency sign
\* (written R)
PriceTexts ==
  {NoneV, StrV("1 200 000 R")}
  \cup {StrV(t) : t \in TextsUpTo({"1", "0", " ", NBSP, "x", "\n"}, MaxPriceLen)}

TypeOK ==
  /\ idx \in 0..Len(apartments)
  /\ pc \in {"loop", "done", "raised", "_normalize_phone", "parse_price",
            "get_feed", "fetched", "responded", "_collect_phones", "_split_phone"}
  /\ pc \in {"loop", "done", "raised"} => Len(feed) = idx + 1
  /\ Len(ret) <= MaxCalls

\* feed = ET.Element("Feed"); ET.SubElement(feed, "Feed_Version").text = "2"
InitOn(batches) ==
  /\ apartments \in batches
  /\ idx = 0
  /\ feed = <<Text("Feed_Version", "2")>>
  /\ pc = "loop"
  /\ arg = NoneV
  /\ ret = <<>>

\* a normalizer about to be called on one of the arguments
InitCall(fn, args) ==
  /\ apartments = <<>>
  /\ idx = 0
  /\ feed = <<>>
  /\ pc = fn
  /\ arg \in args
  /\ ret = <<>>

Init == InitOn(SeqsUpTo(IdListings, MaxBatch) \cup Probes(OrderListings \cup BlankListings))

Spec == Init /\ [][Next]_vars

InitShapes == InitOn(Probes(ShapeListings))

SpecShapes == InitShapes /\ [][Next]_vars

InitFlags == InitOn(Probes(FlagListings \cup FurnitureListings \cup ApartmentsListings))

SpecFlags == InitFlags /\ [][Next]_vars

InitJK == InitOn(Probes(JKListings))

InitPhotos == InitOn(Probes(PhotoListings))

SpecPhotos == InitPhotos /\ [][Next]_vars

InitContacts == InitOn(Probes(ContactListings) \cup ContactPairs)

SpecContacts == InitContacts /\ [][Next]_vars

SpecJK == InitJK /\ [][Next]_vars

InitRental == InitOn(Probes(RentalListings))

SpecRental == InitRental /\ [][Next]_vars

InitRooms == InitOn(Probes(RoomsListings))

SpecRooms == InitRooms /\ [][Next]_vars

InitBathroom == InitOn(Probes(BathroomListings))

SpecBathroom == InitBathroom /\ [][Next]_vars

InitWindows == InitOn(Probes(WindowsListings))

SpecWindows == InitWindows /\ [][Next]_vars

InitLayout == InitOn(Probes(LayoutListings))

SpecLayout == InitLayout /\ [][Next]_vars

InitCues == InitOn(Probes(CueListings))

SpecCues == InitCues /\ [][Next]_vars

InitAmenities == InitOn(Probes(AmenityListings))

SpecAmenities == InitAmenities /\ [][Next]_vars

\* a request to GET /feed.xml has arrived
InitRequest(requests) ==
  /\ apartments = <<>>
  /\ idx = 0
  /\ feed = <<>>
  /\ pc = "get_feed"
  /\ arg \in requests
  /\ ret = <<>>

\* the two callers: the endpoint, and build_feed called on the empty batch
InitGetFeed == InitRequest(GetFeedRequests) \/ InitOn({<<>>})

SpecGetFeed == InitGetFeed /\ [][NextGetFeed]_vars

InitCollect == InitCall("_collect_phones", {c.sources : c \in CollectCases})

SpecCollect == InitCollect /\ [][CollectPhones]_vars

InitTwice == InitOn(SeqsUpTo(TwiceListings, MaxBatch))

SpecTwice == InitTwice /\ [][NextTwice]_vars

InitSplit == InitCall("_split_phone", NormalizedPhones)

SpecSplit == InitSplit /\ [][SplitPhone]_vars

InitRoundTrip == InitOn(Probes(RoundTripListings))

SpecRoundTrip == InitRoundTrip /\ [][Next]_vars

InitAreas == InitOn(Probes(AreaListings))

SpecAreas == InitAreas /\ [][Next]_vars

InitSchemas == InitOn(Probes(SchemaListings))

SpecSchemas == InitSchemas /\ [][Next]_vars

InitIds == InitOn(SeqsUpTo(OwnIdListings, MaxBatch))

SpecIds == InitIds /\ [][Next]_vars

InitPhone == InitCall("_normalize_phone", PhoneTexts)

SpecPhone == InitPhone /\ [][NormalizePhone]_vars

InitPrice == InitCall("parse_price", PriceTexts)

SpecPrice == InitPrice /\ [][ParsePrice]_vars

---------------------------------------------------------------------------
(* Reading the document built so far.                                      *)

Range(seq) == {seq[i] : i \in 1..Len(seq)}

\* the tags of the children of el, in document order
Tags(el) == [j \in 1..Len(el.kids) |-> el.kids[j].tag]

HasKid(el, tag) == \E j \in 1..Len(el.kids) : el.kids[j].tag = tag

\* the first child of el with the tag
Kid(el, tag) == el.kids[CHOOSE j \in 1..Len(el.kids) :
                          /\ el.kids[j].tag = tag
                          /\ \A k \in 1..(j - 1) : el.kids[k].tag # tag]

\* the child tag of el is present and its text is the string s
KidText(el, tag, s) == HasKid(el, tag) /\ Kid(el, tag).text = StrV(s)

\* the positions of the listings whose Object has been built
Built == 1..idx

\* the Object built for the listing at position i
Object(i) == feed[i + 1]

---------------------------------------------------------------------------
(* Claims.                                                                 *)

\* the element order of the output contract
SchemaOrder ==
  <<"ExternalId", "Auction", "Status", "Category", "RoomType", "Type",
    "Address", "Description", "FlatRoomsCount", "BedsCount", "FloorNumber",
    "FloorsTotal", "TotalArea", "LivingSpace", "KitchenSpace",
    "SeparateWcsCount", "CombinedWcsCount", "LoggiasCount", "BalconiesCount",
    "WindowsViewType", "BargainTerms", "Photos", "PromotionType",
    "IsApartments", "Contacts", "SubAgent", "Building", "JKSchema",
    "FlatAmenities", "HasInternet", "HasFurniture", "HasPhone",
    "HasKitchenFurniture", "HasTv", "HasWasher", "HasConditioner", "HasRamp",
    "HasBathtub", "HasShower", "HasDishwasher", "HasFridge", "PetsAllowed",
    "ChildrenAllowed">>

Rank(tag) == CHOOSE r \in 1..Len(SchemaOrder) : SchemaOrder[r] = tag

MandatoryTags ==
  {"ExternalId", "Status", "Category", "Type", "Address", "Description",
   "FlatRoomsCount", "FloorNumber", "FloorsTotal", "TotalArea", "LivingSpace",
   "KitchenSpace", "BargainTerms", "Photos", "PromotionType", "Building"}

\* C1: the children of every Object are elements of the schema, appear in
\* the schema's relative order with none twice (their ranks increase
\* strictly), and the mandatory elements are all there.
C1_ChildOrder ==
  \A i \in Built :
    LET tags == Tags(Object(i))
    IN  /\ Range(tags) \subseteq Range(SchemaOrder)
        /\ \A j, k \in 1..Len(tags) : j < k => Rank(tags[j]) < Rank(tags[k])
        /\ MandatoryTags \subseteq Range(tags)

\* a returned document with an Object that has every element of the schema
C1_Witness ==
  /\ pc = "done"
  /\ \E i \in Built : Len(Object(i).kids) = Len(SchemaOrder)

\* the ExternalId the listing apt gets at position i
ExpectedId(apt, i) ==
  IF Truthy(Get(apt, "external_id")) THEN PyStr(Get(apt, "external_id"))
  ELSE "apt_" \o IntToStr(i)

\* C2: the root's children are the single Feed_Version followed by Objects
\* only; the i-th Object carries the identity and address of the i-th
\* listing; the returned document has exactly one Object per listing.
C2_BatchOrder ==
  /\ feed[1] = Text("Feed_Version", "2")
  /\ \A i \in 2..Len(feed) : feed[i].tag = "Object"
  /\ \A i \in Built :
       /\ KidText(Object(i), "ExternalId", ExpectedId(apartments[i], i))
       /\ KidText(Kid(Object(i), "Address"), "AddressLine",
                  escape_xml(Get(apartments[i], "address")))
  /\ pc = "done" => Len(feed) = Len(apartments) + 1

\* a returned document for a batch whose first two listings have ids of
\* their own, different from each other
C2_Witness ==
  /\ pc = "done"
  /\ Len(apartments) >= 2
  /\ Truthy(Get(apartments[1], "external_id"))
  /\ Truthy(Get(apartments[2], "external_id"))
  /\ ExpectedId(apartments[1], 1) # ExpectedId(apartments[2], 2)

\* C3: build_feed never raises, whatever the types of the fields.
C3_NeverRaises == pc # "raised"

\* every field of the listing is None or empty
IsBlank(apt) ==
  \A k \in DOMAIN apt : apt[k] \in {NoneV, StrV(""), ListV(<<>>), EmptyDict}

AbsentWhenBlank ==
  {"Auction", "RoomType", "BedsCount", "SeparateWcsCount", "CombinedWcsCount",
   "LoggiasCount", "BalconiesCount", "WindowsViewType", "Contacts",
   "SubAgent", "JKSchema", "FlatAmenities"}

\* C4: a batch of blank listings does not raise, and the Object of a blank
\* listing at position i carries the documented defaults and none of the
\* optional elements named by the claim.
C4_BlankDefaults ==
  /\ (\A i \in 1..Len(apartments) : IsBlank(apartments[i])) => pc # "raised"
  /\ \A i \in Built :
       IsBlank(apartments[i]) =>
         LET o == Object(i)
         IN  /\ KidText(o, "ExternalId", "apt_" \o IntToStr(i))
             /\ KidText(o, "Status", "published")
             /\ KidText(o, "Category", "flatRent")
             /\ KidText(o, "Type", "apartment")
             /\ HasKid(o, "Address")
             /\ Kid(o, "Address").kids = <<Text("AddressLine", "")>>
             /\ KidText(o, "Description", "")
             /\ KidText(o, "FlatRoomsCount", "1")
             /\ KidText(o, "FloorNumber", "1")
             /\ KidText(o, "FloorsTotal", "1")
             /\ KidText(o, "TotalArea", "0")
             /\ KidText(o, "LivingSpace", "0")
             /\ KidText(o, "KitchenSpace", "0")
             /\ HasKid(o, "BargainTerms")
             /\ KidText(Kid(o, "BargainTerms"), "Price", "0")
             /\ KidText(Kid(o, "BargainTerms"), "Deposit", "0")
             /\ KidText(Kid(o, "BargainTerms"), "Prepay", "1")
             /\ HasKid(o, "Photos") /\ Kid(o, "Photos").kids = <<>>
             /\ KidText(o, "PromotionType", "noPromotion")
             /\ HasKid(o, "Building") /\ Kid(o, "Building").kids = <<>>
             /\ \A tag \in AbsentWhenBlank : ~HasKid(o, tag)

\* a returned document whose second listing has every field, all empty
C4_Witness ==
  /\ pc = "done"
  /\ Len(apartments) >= 2
  /\ DOMAIN apartments[1] = {}
  /\ DOMAIN apartments[2] = AllFields
  /\ IsBlank(apartments[2])
  /\ KidText(Object(2), "ExternalId", "apt_2")

\* the flags that only follow the generic rule
GenericSpecs ==
  {n \in 1..Len(bool_specs) :
     bool_specs[n][1] \notin {"HasFurniture", "PetsAllowed", "ChildrenAllowed"}}

\* the amenity text of the listing has the keyword as one of its items,
\* whatever the case of the letters
KeywordPresent(apt, keyword) ==
  \E item \in Range(_split_items(Get(apt, "apartment_amenities"))) :
     Lower(item) = keyword

\* the Object o has the flag with the value b, or has no such flag if b is None
FlagIs(o, tag, b) ==
  IF b = NoneV THEN ~HasKid(o, tag)
  ELSE KidText(o, tag, IF b.b THEN "true" ELSE "false")

\* C5: a generic flag is the coerced explicit field when that is true or
\* false; otherwise it is true when its keyword is an amenity item; otherwise
\* the flag element is absent.
C5_GenericFlags ==
  \A i \in Built : \A n \in GenericSpecs :
    LET apt == apartments[i]
        explicit == _get_bool(Get(apt, bool_specs[n][2]))
        keyword == bool_specs[n][3]
    IN  FlagIs(Object(i), bool_specs[n][1],
               IF explicit # NoneV THEN explicit
               ELSE IF keyword # "" /\ KeywordPresent(apt, keyword) THEN BoolV(TRUE)
               ELSE NoneV)

\* a returned document in which an explicit false won over a present keyword,
\* a keyword alone gave true, and a flag with neither is absent
C5_Witness ==
  /\ pc = "done"
  /\ \E i \in Built :
       /\ _get_bool(Get(apartments[i], "has_internet")) = BoolV(FALSE)
       /\ KeywordPresent(apartments[i], "internet")
       /\ KidText(Object(i), "HasInternet", "false")
       /\ "has_fridge" \notin DOMAIN apartments[i]
       /\ KidText(Object(i), "HasFridge", "true")
       /\ ~HasKid(Object(i), "HasTv") \/ KeywordPresent(apartments[i], "televizor")
       /\ ~HasKid(Object(i), "HasShower")

\* C6: HasFurniture is the coerced has_furniture field when that is true or
\* false; otherwise it is true exactly when a furniture keyword is an amenity
\* item or has_room_furniture or has_kitchen_furniture is true.
C6_FurnitureExplicit ==
  \A i \in Built :
    LET apt == apartments[i]
        explicit == _get_bool(Get(apt, "has_furniture"))
    IN  IF explicit # NoneV THEN FlagIs(Object(i), "HasFurniture", explicit)
        ELSE KidText(Object(i), "HasFurniture", "true")
             <=> \/ KeywordPresent(apt, "mebelj v komnatah")
                 \/ KeywordPresent(apt, "mebelj na kuhne")
                 \/ _get_bool(Get(apt, "has_room_furniture")) = BoolV(TRUE)
                 \/ _get_bool(Get(apt, "has_kitchen_furniture")) = BoolV(TRUE)

\* C7: an Object has IsApartments only if its listing has one of the fields
\* is_apartments, is_apartment, property_type.
C7_IsApartmentsOptional ==
  \A i \in Built :
    HasKid(Object(i), "IsApartments") =>
      \E f \in {"is_apartments", "is_apartment", "property_type"} :
         Get(apartments[i], f) # NoneV

\* C8: JKSchema is there iff one of the complex, house and unit identifiers
\* is present; House inside it iff one of the house and unit identifiers is;
\* Flat inside House iff one of the unit identifiers is.
C8_JKSchemaNesting ==
  \A i \in Built :
    LET apt == apartments[i]
        o == Object(i)
        Has(key) == Truthy(Get(apt, key))
        unit == Has("apartment_number") \/ Has("section_number")
        house == Has("house_id") \/ Has("building_name") \/ unit
        complex == Has("jk_id") \/ Has("complex_id") \/ Has("complex_name") \/ house
    IN  /\ HasKid(o, "JKSchema") <=> complex
        /\ complex => (HasKid(Kid(o, "JKSchema"), "House") <=> house)
        /\ house => (HasKid(Kid(Kid(o, "JKSchema"), "House"), "Flat") <=> unit)

\* the texts that main_photo_url and then photos_json offer as URLs
Offered(apt) ==
  LET photos_json == Get(apt, "photos_json")
      given == <<Get(apt, "main_photo_url")>>
               \o (IF photos_json.t = "dict" THEN photos_json.vals
                   ELSE IF photos_json.t = "list" THEN photos_json.items
                   ELSE <<>>)
      nonempty == SelectSeq(given, Truthy)
  IN  [j \in 1..Len(nonempty) |-> escape_xml(nonempty[j])]

\* the place where x is first met in seq
FirstAt(x, seq) == CHOOSE j \in 1..Len(seq) : seq[j] = x /\ \A k \in 1..(j - 1) : seq[k] # x

\* C9: the Photo elements are the distinct non-empty URLs of main_photo_url
\* followed by photos_json, in first-seen order and without repeats; a
\* present main_photo_url is the first Photo; only the first Photo is the
\* default one; main A with photos x:A, y:B, z:B gives A (default), B.
C9_PhotoPolicy ==
  \A i \in Built :
    LET apt == apartments[i]
        photos == Kid(Object(i), "Photos").kids
        offered == Offered(apt)
        url(j) == Kid(photos[j], "FullUrl").text.s
    IN  /\ \A j \in 1..Len(photos) :
             /\ photos[j].tag = "Photo"
             /\ Tags(photos[j]) = <<"FullUrl", "IsDefault">>
             /\ KidText(photos[j], "IsDefault", IF j = 1 THEN "true" ELSE "false")
        /\ {url(j) : j \in 1..Len(photos)} = Range(offered)
        /\ \A j, k \in 1..Len(photos) :
             j < k => /\ url(j) # url(k)
                      /\ FirstAt(url(j), offered) < FirstAt(url(k), offered)
        /\ Truthy(Get(apt, "main_photo_url")) =>
             /\ photos # <<>>
             /\ url(1) = escape_xml(Get(apt, "main_photo_url"))
        /\ ( /\ Get(apt, "main_photo_url") = StrV("A")
             /\ Get(apt, "photos_json")
                  = DictV(<<"x", "y", "z">>, <<StrV("A"), StrV("B"), StrV("B")>>) )
           => photos = <<add_photo("A", TRUE), add_photo("B", FALSE)>>

\* the returned document of main photo A with photos x:A, y:B, z:B
C9_Witness ==
  /\ pc = "done"
  /\ \E i \in Built :
       /\ Get(apartments[i], "main_photo_url") = StrV("A")
       /\ Get(apartments[i], "photos_json")
            = DictV(<<"x", "y", "z">>, <<StrV("A"), StrV("B"), StrV("B")>>)
       /\ Len(Kid(Object(i), "Photos").kids) = 2

\* the text has a digit
HasDigit(s) == \E j \in 1..Len(s) : Ch(s, j) \in Digit

\* a phone source from which a phone resolves
Resolves(source) ==
  /\ Truthy(source)
  /\ IF source.t = "list" THEN \E v \in Range(source.items) : HasDigit(PyStr(v))
     ELSE IF source.t = "dict" THEN \E v \in Range(source.vals) : HasDigit(PyStr(v))
     ELSE HasDigit(PyStr(source))

\* C10: Contacts is there iff a phone resolves from the agent's phones or
\* phone or from the listing's agent_phone; without an agent and without
\* agent_phone there is no Contacts whatever name or e-mail is known; the
\* Contact holds the optional Name, then Phones, then the optional Email.
C10_ContactsPolicy ==
  \A i \in Built :
    LET apt == apartments[i]
        o == Object(i)
        agent == IF Truthy(Get(apt, "agent")) THEN Get(apt, "agent") ELSE EmptyDict
        name == Or(DictGet(agent, "name"),
                   Or(Get(apt, "agent_name"), Get(apt, "agent_full_name")))
        email == Or(DictGet(agent, "email"), Get(apt, "agent_email"))
    IN  /\ HasKid(o, "Contacts")
             <=> \/ Resolves(DictGet(agent, "phones"))
                 \/ Resolves(DictGet(agent, "phone"))
                 \/ Resolves(Get(apt, "agent_phone"))
        /\ (~Truthy(Get(apt, "agent")) /\ Get(apt, "agent_phone") = NoneV)
             => ~HasKid(o, "Contacts")
        /\ HasKid(o, "Contacts") =>
             LET kids == Kid(o, "Contacts").kids
             IN  /\ Len(kids) = 1
                 /\ kids[1].tag = "Contact"
                 /\ Tags(kids[1])
                      = (IF Truthy(name) THEN <<"Name">> ELSE <<>>)
                        \o <<"Phones">>
                        \o (IF Truthy(email) THEN <<"Email">> ELSE <<>>)
                 /\ Kid(kids[1], "Phones").kids # <<>>

\* a returned document whose first listing has a name and an e-mail but no
\* phone and no Contacts, and whose second has Name, Phones and Email
C10_Witness ==
  /\ pc = "done"
  /\ Len(apartments) = 2
  /\ Truthy(Get(apartments[1], "agent_name"))
  /\ Truthy(Get(apartments[1], "agent_email"))
  /\ ~HasKid(Object(1), "Contacts")
  /\ HasKid(Object(2), "Contacts")
  /\ Tags(Kid(Object(2), "Contacts").kids[1]) = <<"Name", "Phones", "Email">>

\* the digits of the argument of the call
ArgDigits == IF IsStr(arg) THEN Keep(arg.s, Digit) ELSE ""

\* C11: _normalize_phone returns nothing iff the input is absent, empty or
\* has no digit; otherwise, with d the digits of the input: 11 digits
\* starting with 8 give +7 and the last 10 digits, 10 digits starting with 9
\* give +7 and d, everything else gives + and d; 89991234567 and 9991234567
\* give +79991234567 and +1234567890 comes back unchanged.
C11_PhoneTable ==
  (pc = "_normalize_phone" /\ ret # <<>>) =>
    LET d == ArgDigits
        n == Len(d)
    IN  /\ ret[1] = NoneV <=> d = ""
        /\ d # "" =>
             ret[1] = StrV(IF n = 11 /\ Ch(d, 1) = "8" THEN "+7" \o SubSeq(d, 2, 11)
                           ELSE IF n = 10 /\ Ch(d, 1) = "9" THEN "+7" \o d
                           ELSE "+" \o d)
        /\ arg \in {StrV("89991234567"), StrV("9991234567")}
             => ret[1] = StrV("+79991234567")
        /\ arg = StrV("+1234567890") => ret[1] = arg

\* the call on a ten-digit mobile number has returned
C11_Witness ==
  /\ pc = "_normalize_phone"
  /\ arg = StrV("9991234567")
  /\ ret # <<>>
  /\ ret[1] = StrV("+79991234567")

\* C12: normalizing the result of a call of _normalize_phone that did not
\* fail returns that result again.
C12_PhoneIdempotent ==
  (pc = "_normalize_phone" /\ Len(ret) >= 2 /\ ret[1] # NoneV) =>
    \A k \in 2..Len(ret) : ret[k] = ret[1]

\* the second call has returned for an input written with the trunk prefix
\* and punctuation
C12_Witness ==
  /\ pc = "_normalize_phone"
  /\ arg = StrV("8 (495) 111-22-33")
  /\ Len(ret) >= 2
  /\ ret[2] = StrV("+74951112233")

Min(a, b) == IF a < b THEN a ELSE b

Max(a, b) == IF a > b THEN a ELSE b

\* C15: for an integer r in the rooms field FlatRoomsCount is
\* max(1, min(6, r)) when r > 0 and "1" when r <= 0 or the field is absent,
\* so it is always one of 1..6.
C15_RoomsClamp ==
  \A i \in Built :
    LET o == Object(i)
        rooms == Get(apartments[i], "rooms")
        numeral == <<"1", "2", "3", "4", "5", "6">>
    IN  /\ \A c \in RoomsCases :
             rooms = c.v =>
               KidText(o, "FlatRoomsCount",
                       IF c.r > 0 THEN numeral[Max(1, Min(6, c.r))] ELSE "1")
        /\ rooms = NoneV => KidText(o, "FlatRoomsCount", "1")
        /\ \E k \in 1..6 : KidText(o, "FlatRoomsCount", numeral[k])

\* a returned document with a listing of more than six rooms counted as six
\* and one of no rooms counted as one
C15_Witness ==
  /\ pc = "done"
  /\ \E i \in Built :
       /\ Get(apartments[i], "rooms") = IntV(9)
       /\ KidText(Object(i), "FlatRoomsCount", "6")
  /\ \E i \in Built :
       /\ "rooms" \notin DOMAIN apartments[i]
       /\ KidText(Object(i), "FlatRoomsCount", "1")

\* the Object o has the element with the text s, or has no such element
\* if s is ""
TextIs(o, tag, s) == IF s = "" THEN ~HasKid(o, tag) ELSE KidText(o, tag, s)

\* C16: with a "Sanuzel:" phrase the count is the first digit run of the
\* phrase, or 1; SeparateWcsCount is that count iff the phrase has the
\* separate keyword, CombinedWcsCount iff it has the combined keyword; the
\* explicit field is used only where the text gives nothing; the element is
\* absent when neither gives a value; the value of a label that follows the
\* phrase is never taken for the count.
C16_BathroomCounts ==
  \A i \in Built : \A c \in BathroomCases :
    apartments[i] = c.apt =>
      LET Explicit(field) == IF Truthy(Get(c.apt, field)) THEN PyStr(Get(c.apt, field))
                             ELSE ""
      IN  /\ TextIs(Object(i), "SeparateWcsCount",
                    IF c.sep # "" THEN c.sep ELSE Explicit("separate_wc_count"))
          /\ TextIs(Object(i), "CombinedWcsCount",
                    IF c.comb # "" THEN c.comb ELSE Explicit("combined_wc_count"))

\* a returned document of a separate bathroom written before a balcony
\* count, with both explicit fields set: the text gives the separate count,
\* the field the combined one
C16_Witness ==
  /\ pc = "done"
  /\ \E i \in Built :
       /\ apartments[i] = [apartment_details |-> StrV("Sanuzel: razdeljnyy, Balkonov: 3"),
                           separate_wc_count |-> IntV(3),
                           combined_wc_count |-> StrV("4")]
       /\ KidText(Object(i), "SeparateWcsCount", "1")
       /\ KidText(Object(i), "CombinedWcsCount", "4")

\* C17: a non-empty windows_view_type is emitted as it is and wins over
\* the text; otherwise the text after "Okna:" decides: street and yard cue
\* give streetAndYard, the street cue alone street, the yard cue alone yard,
\* no cue or no label no element; both cues never give a single value.
C17_WindowsView ==
  \A i \in Built : \A c \in WindowsCases :
    apartments[i] = c.apt =>
      LET direct == Get(c.apt, "windows_view_type")
      IN  TextIs(Object(i), "WindowsViewType",
                 IF Truthy(direct) THEN direct.s ELSE c.view)

\* a returned document of windows on the street and the yard, and no
\* explicit field
C17_Witness ==
  /\ pc = "done"
  /\ \E i \in Built :
       /\ apartments[i]
            = [apartment_details |-> StrV("Ploschadj: 45. Okna: na ulicu i vo dvor. Ulica tihaya, dvor zakryt")]
       /\ KidText(Object(i), "WindowsViewType", "streetAndYard")

\* C18: a non-empty room_type is emitted as it is and wins; otherwise the
\* text after "Planirovka:" is tried against the cues in the order combined
\* with separate (both), free plan (free), separated, adjoining (adjacent)
\* and the first that matches gives the value; no match or no label gives
\* no element; there is at most one RoomType.
C18_RoomType ==
  \A i \in Built :
    /\ Cardinality({j \in 1..Len(Object(i).kids) : Object(i).kids[j].tag = "RoomType"}) <= 1
    /\ \A c \in LayoutCases :
         apartments[i] = c.apt =>
           LET value == Get(c.apt, "room_type")
           IN  TextIs(Object(i), "RoomType", IF Truthy(value) THEN value.s ELSE c.type)

\* a returned document of a layout text with the free-plan, the combined
\* and the separate cue
C18_Witness ==
  /\ pc = "done"
  /\ \E i \in Built :
       /\ apartments[i]
            = [apartment_details |-> StrV("Planirovka: svobodnaya, sovmeschennaya izolirovannaya")]
       /\ KidText(Object(i), "RoomType", "both")

\* C19: PetsAllowed and ChildrenAllowed carry the explicit field when it
\* coerces to true or false, whatever the text says; otherwise a permitting
\* phrase of the lower-cased rental text gives true, a forbidding phrase
\* false, no phrase no element; a text that only forbids never gives true.
C19_PetsChildren ==
  \A i \in Built : \A c \in CueCases :
    apartments[i] = c.apt =>
      LET pets == _get_bool(Get(c.apt, "pets_allowed"))
          children == _get_bool(Get(c.apt, "children_allowed"))
      IN  /\ FlagIs(Object(i), "PetsAllowed", IF pets # NoneV THEN pets ELSE c.pets)
          /\ FlagIs(Object(i), "ChildrenAllowed",
                    IF children # NoneV THEN children ELSE c.children)

\* a returned document of a text that forbids pets and allows children, the
\* pets field being undecided
C19_Witness ==
  /\ pc = "done"
  /\ \E i \in Built :
       /\ apartments[i] = [rental_conditions |-> StrV("bez zhivotnyh. S detjmi"),
                           pets_allowed |-> StrV("maybe")]
       /\ KidText(Object(i), "PetsAllowed", "false")
       /\ KidText(Object(i), "ChildrenAllowed", "true")

\* C20: the amenity text is split on commas, semicolons and line breaks
\* into trimmed non-empty items; FlatAmenities is there iff there is an
\* item, with one Amenity per item in the order of the text, an item of the
\* vocabulary under its canonical name, any other item as written;
\* "Holodiljnik, Internet" gives Fridge, Internet and the flags HasFridge
\* and HasInternet true.
C20_AmenityList ==
  \A i \in Built :
    LET o == Object(i)
        text == Get(apartments[i], "apartment_amenities")
        Canonical(item) == IF item \in DOMAIN AMENITY_MAP THEN AMENITY_MAP[item] ELSE item
    IN  /\ \A c \in AmenityCases :
             text = StrV(c.text) =>
               IF c.items = <<>> THEN ~HasKid(o, "FlatAmenities")
               ELSE /\ HasKid(o, "FlatAmenities")
                    /\ Kid(o, "FlatAmenities").kids
                         = [j \in 1..Len(c.items) |-> Text("Amenity", Canonical(c.items[j]))]
        /\ text = StrV("Holodiljnik, Internet") =>
             /\ Kid(o, "FlatAmenities").kids
                  = <<Text("Amenity", "Fridge"), Text("Amenity", "Internet")>>
             /\ KidText(o, "HasFridge", "true")
             /\ KidText(o, "HasInternet", "true")

\* a returned document of three items between semicolons and line breaks,
\* one of the vocabulary, one of it but in lower case, one foreign
C20_Witness ==
  /\ pc = "done"
  /\ \E i \in Built :
       /\ Get(apartments[i], "apartment_amenities")
            = StrV(" ,Wi-Fi & TV;\nvanna;\nInternet; ")
       /\ Kid(Object(i), "FlatAmenities").kids
            = <<Text("Amenity", "Wi-Fi & TV"), Text("Amenity", "vanna"),
                Text("Amenity", "Internet")>>

---------------------------------------------------------------------------
(* C21: the sub-agent block and the back-fill of its e-mail.               *)

\* the agents of the table a row points at
AgentsOf(row) ==
  {arg.agents[j] : j \in {k \in 1..Len(arg.agents) :
                            /\ Get(row, "agent_id") \notin {NoneV, StrV("")}
                            /\ PyStr(DictGet(arg.agents[k], "id")) = PyStr(Get(row, "agent_id"))}}

\* the sub-agent fields in the order of the block
SubAgentFields ==
  <<<<"Email", "subagent_email">>, <<"Phone", "subagent_phone">>,
    <<"FirstName", "subagent_first_name">>, <<"LastName", "subagent_last_name">>,
    <<"AvatarUrl", "subagent_avatar_url">>>>

\* the tags of the fields a listing has, in that order
RECURSIVE PresentTags(_, _)
PresentTags(apt, fields) ==
  IF fields = <<>> THEN <<>>
  ELSE (IF Truthy(Get(apt, Head(fields)[2])) THEN <<Head(fields)[1]>> ELSE <<>>)
       \o PresentTags(apt, Tail(fields))

\* C21: a fetched row that points at an agent of the table with an e-mail
\* and has no sub-agent e-mail of its own carries the agent's e-mail as its
\* sub-agent e-mail; a row with its own sub-agent e-mail keeps it; a row
\* pointing at no agent of the table is the row as stored.  An Object has
\* a SubAgent exactly when its listing has a sub-agent first or last name,
\* and the SubAgent's children are those of Email, Phone, FirstName,
\* LastName, AvatarUrl whose field the listing has, in that order.
C21_SubAgentPolicy ==
  /\ pc = "fetched" =>
       /\ Len(apartments) = Len(arg.objects)
       /\ \A i \in 1..Len(apartments) :
            LET raw == arg.objects[i]
                row == apartments[i]
            IN  /\ Truthy(Get(raw, "subagent_email")) =>
                     Get(row, "subagent_email") = Get(raw, "subagent_email")
                /\ AgentsOf(raw) = {} => row = raw
                /\ \A agent \in AgentsOf(raw) :
                     Truthy(DictGet(agent, "email")) /\ ~Truthy(Get(raw, "subagent_email")) =>
                       Get(row, "subagent_email") = DictGet(agent, "email")
                /\ \A agent \in AgentsOf(raw) :
                     ~Truthy(DictGet(agent, "email")) =>
                       Get(row, "subagent_email") = Get(raw, "subagent_email")
  /\ \A i \in Built :
       LET apt == apartments[i]
           o == Object(i)
       IN  /\ HasKid(o, "SubAgent") <=>
                Truthy(Get(apt, "subagent_first_name")) \/ Truthy(Get(apt, "subagent_last_name"))
           /\ HasKid(o, "SubAgent") =>
                Tags(Kid(o, "SubAgent")) = PresentTags(apt, SubAgentFields)

\* a listing with a sub-agent name and no e-mail of its own, pointing at
\* the agent with an e-mail, is served with that e-mail in its SubAgent
C21_Witness ==
  /\ pc = "responded"
  /\ ret[1].status_code = 200
  /\ Len(arg.objects) = 1
  /\ Get(arg.objects[1], "agent_id") = StrV("5")
  /\ Get(arg.objects[1], "subagent_email") = NoneV
  /\ Get(arg.objects[1], "subagent_avatar_url") # NoneV
  /\ HasKid(Object(1), "SubAgent")
  /\ Tags(Kid(Object(1), "SubAgent")) = <<"Email", "LastName", "AvatarUrl">>
  /\ KidText(Kid(Object(1), "SubAgent"), "Email", "i@x.ru")

---------------------------------------------------------------------------
(* C22: the phones collected from a mixture of sources.                    *)

\* the numbers of a sequence, each once, in the order they are first seen
RECURSIVE FirstSeen(_, _)
FirstSeen(seen, norms) ==
  IF norms = <<>> THEN seen
  ELSE FirstSeen(IF Head(norms) = "" \/ InSeq(Head(norms), seen)
                 THEN seen ELSE Append(seen, Head(norms)),
                 Tail(norms))

\* C22: _collect_phones returns the normalized forms of the values that
\* normalize, each once, in the order they are first seen, whether the
\* values come as one text, a text delimited by ; , or /, a list or the
\* values of a mapping; empty sources and values that do not normalize
\* add nothing and raise nothing.
C22_CollectPhones ==
  pc = "_collect_phones" /\ ret # <<>> =>
    /\ \A c \in CollectCases : arg = c.sources => ret[1] = FirstSeen(<<>>, c.norms)
    /\ \A j, k \in 1..Len(ret[1]) : ret[1][j] = ret[1][k] => j = k

\* a mapping and a text spell one number in two ways next to a value that
\* does not normalize: the number comes out once
C22_Witness ==
  /\ pc = "_collect_phones"
  /\ arg = <<DictV(<<"k">>, <<StrV("+7 916 123 45 67")>>), StrV("8 (916) 123-45-67")>>
  /\ ret = <<<<"+79161234567">>>>

---------------------------------------------------------------------------
(* C23: the document for the empty batch.                                  *)

\* the statuses of the table that count as published
PublishedStatuses == {StrV("published"), StrV(" Published\n"), BoolV(TRUE)}

\* C23: build_feed called on the empty batch returns the document whose
\* Feed root has the single child Feed_Version with text 2; GET /feed.xml
\* answers 200 with the same document when no fetched row is published.
C23_MinimalDocument ==
  /\ arg = NoneV /\ apartments = <<>> /\ pc = "done" =>
       feed = <<Text("Feed_Version", "2")>>
  /\ /\ pc = "responded"
     /\ arg.client = "ok"
     /\ \A i \in 1..Len(arg.objects) : Get(arg.objects[i], "status") \notin PublishedStatuses
     => ret = <<[status_code |-> 200, content |-> <<Text("Feed_Version", "2")>>]>>

\* the answer to a request that found a draft row and a row without status
C23_Witness ==
  /\ pc = "responded"
  /\ arg.client = "ok"
  /\ Len(arg.objects) = 2
  /\ Get(arg.objects[1], "status") = StrV("draft")
  /\ Get(arg.objects[2], "status") = NoneV
  /\ ret[1].content = <<Text("Feed_Version", "2")>>

---------------------------------------------------------------------------
(* C24: build_feed as a function of its batch.                             *)

\* the document of a call agrees with the document the call before it
\* returned for the same batch, and each Object is the one its listing
\* gets at its position whatever the other listings are
SameDocument ==
  /\ pc = "done" /\ ret # <<>> => feed = ret[1]
  /\ \A i \in Built : Object(i) = Node("Object", ObjectKids(apartments[i], i))

---------------------------------------------------------------------------
(* C25: the parts of a normalized phone.                                   *)

\* C25: _split_phone of a normalized phone with the digits d gives, for d
\* of at most ten digits, the country code +7 and d with zeros put before
\* it up to ten digits; for a longer d, the last ten digits as the number
\* and + with the digits before them as the country code.  The number has
\* ten digits and the country code is + and at least one digit.
C25_SplitPhone ==
  pc = "_split_phone" /\ ret # <<>> =>
    LET d == From(arg.s, 2)
        country_code == ret[1][1]
        number == ret[1][2]
    IN  /\ Len(ret[1]) = 2
        /\ Len(d) <= 10 =>
             /\ country_code = "+7"
             /\ number = SubSeq("0000000000", 1, 10 - Len(d)) \o d
        /\ Len(d) > 10 =>
             /\ country_code = "+" \o SubSeq(d, 1, Len(d) - 10)
             /\ number = SubSeq(d, Len(d) - 9, Len(d))
        /\ Len(number) = 10
        /\ \A j \in 1..10 : Ch(number, j) \in Digit
        /\ Len(country_code) >= 2
        /\ Ch(country_code, 1) = "+"
        /\ \A j \in 2..Len(country_code) : Ch(country_code, j) \in Digit

\* a phone of twelve digits has been split after its second digit
C25_Witness ==
  /\ pc = "_split_phone"
  /\ arg = StrV("+123456789012")
  /\ ret = <<<<"+12", "3456789012">>>>

---------------------------------------------------------------------------
(* C26: what GET /feed.xml serves.                                         *)

\* the fetched rows of a request that are published, in fetched order
PublishedRows == SelectSeq(arg.objects, LAMBDA row : Get(row, "status") \in PublishedStatuses)

\* C26: a request answered with the client configured and the query
\* succeeding gets status 200 and a document with one Object for each
\* published row (status published whatever its case and the space around
\* it, or the boolean true), in fetched order, and no other Object; a
\* request without a configured client, or whose query fails, gets status
\* 500; a 500 answer carries no document.
C26_PublishedServed ==
  pc = "responded" =>
    /\ arg.client = "ok" =>
         /\ ret[1].status_code = 200
         /\ Len(ret[1].content) = Len(PublishedRows) + 1
         /\ \A i \in 1..Len(PublishedRows) :
              /\ ret[1].content[i + 1].tag = "Object"
              /\ KidText(ret[1].content[i + 1], "ExternalId", ExpectedId(PublishedRows[i], i))
    /\ arg.client # "ok" => ret[1].status_code = 500
    /\ ret[1].status_code = 500 => ret[1].content = <<>>

---------------------------------------------------------------------------
(* C27: texts read back from the returned document.                        *)

\* a parser of the document reads s as the text of the element tag of el,
\* when el has such an element
ReadsAs(el, tag, v) ==
  Truthy(v) => HasKid(el, tag) /\ ReadBack(Kid(el, tag).text.s) = PyStr(v)

\* C27: in the returned document, a parser reads as the text of
\* AddressLine, Description, Photo/FullUrl, Contact/Name, Contact/Email and
\* the SubAgent fields the value the listing has for it, also when the
\* value holds one of & < > " '.
C27_TextRoundTrip ==
  pc = "done" =>
    \A i \in Built :
      LET apt == apartments[i]
          o == Object(i)
      IN  /\ ReadsAs(Kid(o, "Address"), "AddressLine", Get(apt, "address"))
          /\ ReadsAs(o, "Description", Get(apt, "description"))
          /\ Truthy(Get(apt, "main_photo_url")) =>
               ReadsAs(Kid(Kid(o, "Photos"), "Photo"), "FullUrl", Get(apt, "main_photo_url"))
          /\ HasKid(o, "Contacts") =>
               /\ ReadsAs(Kid(Kid(o, "Contacts"), "Contact"), "Name", Get(apt, "agent_name"))
               /\ ReadsAs(Kid(Kid(o, "Contacts"), "Contact"), "Email", Get(apt, "agent_email"))
          /\ HasKid(o, "SubAgent") =>
               /\ ReadsAs(Kid(o, "SubAgent"), "Email", Get(apt, "subagent_email"))
               /\ ReadsAs(Kid(o, "SubAgent"), "Phone", Get(apt, "subagent_phone"))
               /\ ReadsAs(Kid(o, "SubAgent"), "FirstName", Get(apt, "subagent_first_name"))
               /\ ReadsAs(Kid(o, "SubAgent"), "LastName", Get(apt, "subagent_last_name"))
               /\ ReadsAs(Kid(o, "SubAgent"), "AvatarUrl", Get(apt, "subagent_avatar_url"))

---------------------------------------------------------------------------
(* C28: the areas as decimal numbers.                                      *)

\* digits, or digits, a dot and digits
IsDecimal(s) ==
  LET i == SpanEnd(s, 1, Digit)
  IN  /\ i > 1
      /\ \/ i > Len(s)
         \/ /\ Ch(s, i) = "."
            /\ i < Len(s)
            /\ SpanEnd(s, i + 1, Digit) > Len(s)

\* C28: the texts of TotalArea, LivingSpace and KitchenSpace are decimal
\* numbers: one or more digits, then possibly one dot and one or more
\* digits, also when a comma or a full stop follows the labelled value.
C28_DecimalAreas ==
  \A i \in Built :
    \A tag \in {"TotalArea", "LivingSpace", "KitchenSpace"} :
      /\ HasKid(Object(i), tag)
      /\ IsDecimal(Kid(Object(i), tag).text.s)

---------------------------------------------------------------------------
(* C29: the phones of a Contacts block put together again.                 *)

\* C29: the Phones of a Contact has one PhoneSchema for each distinct
\* normalized phone of the listing, at least one, in the order collected,
\* and the CountryCode of each followed by its Number is that normalized
\* phone.
C29_SchemaJoin ==
  \A i \in Built :
    \A c \in SchemaCases :
      apartments[i] = c.apt =>
        LET phones == FirstSeen(<<>>, c.norms)
            schemas == Kid(Kid(Kid(Object(i), "Contacts"), "Contact"), "Phones").kids
        IN  /\ Len(schemas) = Len(phones)
            /\ Len(schemas) >= 1
            /\ \A j \in 1..Len(schemas) :
                 /\ Tags(schemas[j]) = <<"CountryCode", "Number">>
                 /\ schemas[j].kids[1].text.s \o schemas[j].kids[2].text.s = phones[j]

---------------------------------------------------------------------------
(* C30: the ids of a document.                                             *)

\* the ids the listings of the batch have are different as texts
OwnIdsDistinct ==
  \A i, j \in 1..Len(apartments) :
    /\ i # j
    /\ Truthy(Get(apartments[i], "external_id"))
    /\ Truthy(Get(apartments[j], "external_id"))
    => PyStr(Get(apartments[i], "external_id")) # PyStr(Get(apartments[j], "external_id"))

\* C30: when the ids the listings have are different as texts, the
\* ExternalId texts of the Objects of the document are different from each
\* other, the ids given to listings without an id included.
C30_DistinctIds ==
  pc = "done" /\ OwnIdsDistinct =>
    \A i, j \in Built :
      i # j => Kid(Object(i), "ExternalId").text # Kid(Object(j), "ExternalId").text

====
